---- MODULE Spec2Model ----
(***************************************************************************)
(* Model of the tweet-to-thermal-printer program (src/src/main.py and      *)
(* src/src/printer.py): the connection to the M08F printer, the raster     *)
(* framing of a rendered image and the paper feed, and main()'s loop.      *)
(*                                                                         *)
(* Bytes are integers 0..255 and a write to the device handle is the       *)
(* sequence of bytes handed to one WriteFile call.  A rendered PIL image   *)
(* is a record [height, pat]; getpixel gives the grey value of a pixel.    *)
(***************************************************************************)
EXTENDS Integers, Sequences, FiniteSets, TLC

None == "None"

Min(a, b) == IF a < b THEN a ELSE b
Max(a, b) == IF a > b THEN a ELSE b

(***************************************************************************)
(* Class constants of M08FPrinter.                                         *)
(***************************************************************************)
DPI == 203
WIDTH_MM == 190
\* int(WIDTH_MM * DPI / 25.4)
MAX_WIDTH == (WIDTH_MM * DPI * 10) \div 254
BYTES_PER_LINE == (MAX_WIDTH + 7) \div 8
\* the literal 255 of _print_image: rows per raster block
BLOCK_ROWS == 255
\* the literal 255 of _feed_lines: line feeds per write
FEED_CHUNK == 255
\* font sizes, margin and spacing
USERNAME_SIZE == 36
TITLE_SIZE == 52
CONTENT_SIZE == 46
HASHTAG_SIZE == 40
MARGIN == 5
LINE_HEIGHT == 45
TITLE_SPACING == 90
CONTENT_SPACING == 90
\* the width of textwrap.wrap(word, width=20) in _wrap_text
WRAP_WIDTH == 20
\* total_height = 700 of _tweet_to_image
ESTIMATED_HEIGHT == 700
\* VENDOR_ID = "0483", PRODUCT_ID = "5740"
VENDOR_ID == <<"0", "4", "8", "3">>
PRODUCT_ID == <<"5", "7", "4", "0">>

(***************************************************************************)
(* Bounds of the model.                                                    *)
(***************************************************************************)
\* the tallest rendered image
MaxHeight == 256
\* the largest feed_lines value of the configuration
MaxFeed == 300
\* the number of pixel patterns of the short rendered images
MaxPattern == 2
\* the tallest of the short rendered images
MaxShort == 8
\* the longest list of enumerated serial ports
MaxPorts == 2
\* print_density and print_speed are configured from -MaxParam to MaxParam,
\* and as -BigParam and BigParam
MaxParam == 9
BigParam == 1000000
\* raster_threshold is configured from -1 to MaxThreshold
MaxThreshold == 257
\* the largest number of rows of tweets.csv
MaxRows == 3
\* the largest number of words and whitespace runs of a text
MaxTokens == 4
\* the longest word a text is built from
MaxWord == 31
\* the largest number of tweets printed one after the other
MaxJobs == 2
\* the largest number of words and whitespace runs of a title or content
MaxTweetTokens == 5

(***************************************************************************)
(* find_printer_port: format(port.vid, "04x").upper() == VENDOR_ID.        *)
(***************************************************************************)
HexChars == <<"0", "1", "2", "3", "4", "5", "6", "7",
              "8", "9", "a", "b", "c", "d", "e", "f">>

RECURSIVE HexDigits(_)
\* the hexadecimal digits of n >= 0, most significant first, no padding
HexDigits(n) ==
    IF n < 16 THEN <<HexChars[n + 1]>>
    ELSE Append(HexDigits(n \div 16), HexChars[(n % 16) + 1])

RECURSIVE ZeroPad(_, _)
ZeroPad(s, width) == IF Len(s) >= width THEN s ELSE ZeroPad(<<"0">> \o s, width)

\* format(n, "04x")
Format04x(n) == ZeroPad(HexDigits(n), 4)

UpperChar(c) ==
    CASE c = "a" -> "A" [] c = "b" -> "B" [] c = "c" -> "C"
      [] c = "d" -> "D" [] c = "e" -> "E" [] c = "f" -> "F"
      [] OTHER -> c

Upper(s) == [i \in 1..Len(s) |-> UpperChar(s[i])]

\* a test of the vendor id alone
PortMatchesVendor(port) ==
    /\ "vid" \in DOMAIN port
    /\ Upper(Format04x(port.vid)) = VENDOR_ID

\* the condition of find_printer_port; a port without USB ids (vid and pid
\* None) is a record without these fields
PortMatches(port) ==
    /\ "vid" \in DOMAIN port
    /\ "pid" \in DOMAIN port
    /\ Upper(Format04x(port.vid)) = VENDOR_ID
    /\ Upper(Format04x(port.pid)) = PRODUCT_ID

RECURSIVE FindFrom(_, _)
FindFrom(ports, i) ==
    IF i > Len(ports) THEN None
    ELSE IF PortMatches(ports[i]) THEN ports[i].device
    ELSE FindFrom(ports, i + 1)

find_printer_port(ports) == FindFrom(ports, 1)

\* The serial ports the operating system may enumerate: the printer
\* (0483:5740), a device of the same vendor, a device with the two ids
\* swapped, a device whose ids end in the printer's digits, a port without
\* USB ids.
PortKinds ==
    { [vid |-> 1155, pid |-> 22336, device |-> "COM3"],
      [vid |-> 1155, pid |-> 22337, device |-> "COM4"],
      [vid |-> 22336, pid |-> 1155, device |-> "COM5"],
      [vid |-> 66691, pid |-> 22336, device |-> "COM6"],
      [device |-> "COM1"] }

PortLists == UNION { [1..n -> PortKinds] : n \in 0..MaxPorts }

\* a port carries the printer's vendor and product id (0x0483, 0x5740)
IsPrinter(port) ==
    /\ "vid" \in DOMAIN port
    /\ "pid" \in DOMAIN port
    /\ port.vid = 1155
    /\ port.pid = 22336

(***************************************************************************)
(* The configuration: config['printer'], a dictionary.  A key that the     *)
(* configuration file does not set is not in the DOMAIN.                   *)
(***************************************************************************)
\* dict.get(key, default)
Get(d, key, default) == IF key \in DOMAIN d THEN d[key] ELSE default

NoKeys == <<>>

FeedConfigs == { NoKeys, [feed_lines |-> 0], [feed_lines |-> MaxFeed] }

GapConfigs == { NoKeys, [tweet_gap_dots |-> 96], [tweet_gap_lines |-> 1] }

RasterConfigs == { NoKeys, [invert_raster |-> TRUE] }

Configs == { f @@ g @@ r : f \in FeedConfigs, g \in GapConfigs, r \in RasterConfigs }

\* the values of print_density and print_speed in the configuration file
ParamValues == (-MaxParam..MaxParam) \cup {-BigParam, BigParam}

DensityConfigs == { NoKeys } \cup { [print_density |-> v] : v \in ParamValues }

SpeedConfigs == { NoKeys } \cup { [print_speed |-> v] : v \in ParamValues }

ParamConfigs == { d @@ s : d \in DensityConfigs, s \in SpeedConfigs }

\* the raster settings of the configuration file
ThresholdConfigs == { NoKeys } \cup { [raster_threshold |-> t] : t \in -1..MaxThreshold }

PixelConfigs == { t @@ r : t \in ThresholdConfigs, r \in RasterConfigs }

\* self._raster_threshold = int(printer_config.get('raster_threshold', 128))
raster_threshold(config) == Get(config, "raster_threshold", 128)

\* self._invert_raster = bool(printer_config.get('invert_raster', False))
invert_raster(config) == Get(config, "invert_raster", FALSE)

(***************************************************************************)
(* Rendered images.  _tweet_to_image and _simple_text_to_image return a    *)
(* mode '1' image MAX_WIDTH wide; its content depends on the fonts, so the *)
(* model draws it from Images.  Grey 0 is black, 255 is white.             *)
(***************************************************************************)
\* short images of every pattern, and images of one full block and of
\* MaxHeight rows: a full block and a second block
TallHeights == {BLOCK_ROWS, MaxHeight}

ShortImages == [height : 1..MaxShort, pat : 1..MaxPattern]

Images == ShortImages \cup [height : TallHeights, pat : {1}]

\* The images rendered under a configuration: inversion (line 309) acts on
\* each pixel by itself, so with invert_raster set the short images are
\* rendered, and all images without it.
Renderable(config) ==
    IF Get(config, "invert_raster", FALSE) THEN ShortImages ELSE Images

NoImage == [height |-> 0, pat |-> 0]

\* img.convert('L').getpixel((x, y)), for 0 <= x < MAX_WIDTH, 0 <= y < height
getpixel(image, x, y) ==
    IF (x + image.pat * y) % 7 < 2 THEN 0 ELSE 255

\* ImageOps.invert
Invert(p) == 255 - p

\* a pixel equal to the threshold counted as dark
PointInclusive(p, threshold) == IF p <= threshold THEN 0 ELSE 255

\* img.point(lambda p: 0 if p < self._raster_threshold else 255)
Point(p, threshold) == IF p < threshold THEN 0 ELSE 255

\* img.convert('1', dither=NONE): grey above 127 becomes white
Convert1(p) == IF p > 127 THEN 255 ELSE 0

\* lines 309-312 applied to one grey value of img.convert('L')
RasterValue(threshold, invert, grey) ==
    Convert1(Point(IF invert THEN Invert(grey) ELSE grey, threshold))

\* getpixel of the image _print_image packs (after lines 308-312)
RasterPixel(threshold, invert, image, x, y) ==
    RasterValue(threshold, invert, getpixel(image, x, y))

(***************************************************************************)
(* _print_image: raster blocks.                                            *)
(***************************************************************************)
\* len(range(0, stop, step))
RangeLen(stop, step) == (stop + step - 1) \div step

\* one row short
LinesInBlockShort(image, first_row) == Min(BLOCK_ROWS, image.height - first_row - 1)

\* lines_in_block = min(255, img.height - start_y)
LinesInBlock(image, first_row) == Min(BLOCK_ROWS, image.height - first_row)

\* the x + bit < MAX_WIDTH and getpixel == 0 test of the inner loop
BitSet(threshold, invert, image, x, bit, y) ==
    /\ x + bit < MAX_WIDTH
    /\ RasterPixel(threshold, invert, image, x + bit, y) = 0

\* the leftmost pixel in the least significant bit
BitMaskLsb(bit) == 2 ^ bit

\* 1 << (7 - bit)
BitMask(bit) == 2 ^ (7 - bit)

RECURSIVE PackBits(_, _, _, _, _, _)
\* for bit in range(8): byte |= ... , from bit on
PackBits(threshold, invert, image, x, y, bit) ==
    IF bit = 8 THEN 0
    ELSE (IF BitSet(threshold, invert, image, x, bit, y) THEN BitMask(bit) ELSE 0)
         + PackBits(threshold, invert, image, x, y, bit + 1)

\* the bit loop started at 1 instead of 0
PackByteFromOne(threshold, invert, image, x, y) == PackBits(threshold, invert, image, x, y, 1)

\* the byte appended for column x (a multiple of 8) of row y
PackByte(threshold, invert, image, x, y) == PackBits(threshold, invert, image, x, y, 0)

\* the two header fields written high byte first
BlockHeaderBigEndian(n) == <<29, 118, 48, 0>> \o <<0, BYTES_PER_LINE>> \o <<0, n>>

\* the 8 header bytes: GS v 0 0, bytes([BYTES_PER_LINE, 0]), bytes([n, 0])
BlockHeader(n) == <<29, 118, 48, 0>> \o <<BYTES_PER_LINE, 0>> \o <<n, 0>>

\* the rows written bottom-up inside a block
BlockPayloadBottomUp(threshold, invert, image, first_row, n) ==
    LET cols == RangeLen(MAX_WIDTH, 8)
    IN [i \in 1..(n * cols) |->
          PackByte(threshold, invert, image,
                   8 * ((i - 1) % cols), first_row + (n - 1) - ((i - 1) \div cols))]

\* the payload: for y in range(start_y, start_y + n): for x in range(0, MAX_WIDTH, 8)
BlockPayload(threshold, invert, image, first_row, n) ==
    LET cols == RangeLen(MAX_WIDTH, 8)
    IN [i \in 1..(n * cols) |->
          PackByte(threshold, invert, image,
                   8 * ((i - 1) % cols), first_row + ((i - 1) \div cols))]

\* bytes(block) of one pass of the start_y loop
BuildBlock(threshold, invert, image, first_row) ==
    LET n == LinesInBlock(image, first_row)
    IN BlockHeader(n) \o BlockPayload(threshold, invert, image, first_row, n)

\* range(0, img.height, 255)
BlockStarts(image) == { BLOCK_ROWS * k : k \in 0..(RangeLen(image.height, BLOCK_ROWS) - 1) }

(***************************************************************************)
(* _feed_lines and the tweet gap of print_text.                            *)
(***************************************************************************)
\* b'\x0A' * chunk
LineFeeds(chunk) == [i \in 1..chunk |-> 10]

\* all remaining line feeds in one write
FeedChunkAll(left) == left

\* chunk = min(255, remaining)
FeedChunk(left) == Min(FEED_CHUNK, left)

\* int(round(n / d)) for d > 0: Python rounds halves to the even neighbour
RoundDiv(n, d) ==
    LET q == n \div d
        r == n % d
    IN IF 2 * r < d THEN q
       ELSE IF 2 * r > d THEN q + 1
       ELSE IF q % 2 = 0 THEN q ELSE q + 1

\* feed_lines of _print_image
FeedLines(config) == Get(config, "feed_lines", 3)

\* feed_gap_lines of print_text (lines 356-361)
GapLines(config) ==
    IF "tweet_gap_lines" \in DOMAIN config
    THEN config["tweet_gap_lines"]
    ELSE Max(0, RoundDiv(Get(config, "tweet_gap_dots", 0), 64))

(***************************************************************************)
(* _initialize_printer: the four commands, in order.                       *)
(***************************************************************************)
\* the upper bound alone
ClampHigh(lo, hi, v) == Min(hi, v)

\* max(lo, min(hi, v))
Clamp(lo, hi, v) == Max(lo, Min(hi, v))

\* the line spacing set before the density
InitCommandsSwapped(config) ==
    << <<27, 64>>,
       <<27, 51, 64>>,
       <<27, 55, Clamp(0, 7, Get(config, "print_density", 7))>>,
       <<27, 115, Clamp(1, 5, Get(config, "print_speed", 2))>> >>

InitCommands(config) ==
    << <<27, 64>>,
       <<27, 55, Clamp(0, 7, Get(config, "print_density", 7))>>,
       <<27, 51, 64>>,
       <<27, 115, Clamp(1, 5, Get(config, "print_speed", 2))>> >>

(***************************************************************************)
(* Text layout.  A string is a sequence of characters: "W" and "i" stand   *)
(* for a wide and a narrow glyph, " " and "\n" are whitespace.  A font is  *)
(* the record of its metrics in dots: font.getbbox(s) is                   *)
(* (0, 0, TextWidth, TextHeight).                                          *)
(***************************************************************************)
\* The font files _get_font may find: glyph advances and the height of a
\* line of text, in percent of the font size.
NarrowFamily == [W |-> 95, i |-> 25, sp |-> 27, h |-> 75]

WideFamily == [W |-> 150, i |-> 60, sp |-> 50, h |-> 100]

Families == { NarrowFamily, WideFamily }

\* _get_font(size)
get_font(family, size) ==
    [size |-> size,
     W |-> (size * family.W) \div 100,
     i |-> (size * family.i) \div 100,
     sp |-> (size * family.sp) \div 100,
     h |-> (size * family.h) \div 100]

Advance(fnt, c) == CASE c = "W" -> fnt.W [] c = "i" -> fnt.i [] OTHER -> fnt.sp

RECURSIVE WidthOf(_, _, _)
\* the advances of the glyphs of s, summed glyph by glyph over chars
WidthOf(fnt, s, chars) ==
    IF chars = {} THEN 0
    ELSE LET c == CHOOSE e \in chars : TRUE
         IN Advance(fnt, c) * Cardinality({k \in DOMAIN s : s[k] = c})
              + WidthOf(fnt, s, chars \ {c})

\* bbox[2] - bbox[0] of font.getbbox(s)
TextWidth(fnt, s) == WidthOf(fnt, s, {s[k] : k \in DOMAIN s})

\* bbox[3] - bbox[1] of font.getbbox(s)
TextHeight(fnt, s) == IF s = <<>> THEN 0 ELSE fnt.h

IsSpace(c) == c \in {" ", "\n"}

\* the places where a word of s starts: a character that is no whitespace,
\* at the start of s or behind whitespace
WordStarts(s) ==
    { k \in DOMAIN s : ~IsSpace(s[k]) /\ (k = 1 \/ IsSpace(s[k - 1])) }

\* the place where the word that starts at k ends
WordEnd(s, k) ==
    CHOOSE e \in k..Len(s) :
        /\ e = Len(s) \/ IsSpace(s[e + 1])
        /\ \A j \in k..e : ~IsSpace(s[j])

\* the n-th smallest element of places
Nth(places, n) == CHOOSE k \in places : Cardinality({ j \in places : j <= k }) = n

\* text.split(): the maximal runs of characters that are no whitespace
Split(s) ==
    [n \in 1..Cardinality(WordStarts(s)) |->
        SubSeq(s, Nth(WordStarts(s), n), WordEnd(s, Nth(WordStarts(s), n)))]

\* the places of the line breaks of s
Breaks(s) == { k \in DOMAIN s : s[k] = "\n" }

\* text.split('\n'): what stands before, between and behind the line breaks
SplitLines(s) ==
    [n \in 1..(Cardinality(Breaks(s)) + 1) |->
        SubSeq(s,
               IF n = 1 THEN 1 ELSE Nth(Breaks(s), n - 1) + 1,
               IF n = Cardinality(Breaks(s)) + 1 THEN Len(s) ELSE Nth(Breaks(s), n) - 1)]

\* str.strip() is empty
IsBlank(s) == \A k \in 1..Len(s) : IsSpace(s[k])

RECURSIVE Join(_)
\* ' '.join(words)
Join(words) ==
    IF words = <<>> THEN <<>>
    ELSE IF Len(words) = 1 THEN words[1]
    ELSE words[1] \o <<" ">> \o Join(Tail(words))

\* a textwrap.wrap that cuts nothing
TextWrapWhole(word, width) == <<word>>

\* a textwrap.wrap that returns the first piece only
TextWrapFirst(word, width) == <<SubSeq(word, 1, Min(width, Len(word)))>>

\* textwrap.wrap(word, width) for a word without whitespace or hyphens:
\* pieces of width characters, the last one what is left
TextWrap(word, width) ==
    [n \in 1..((Len(word) + width - 1) \div width) |->
        SubSeq(word, width * (n - 1) + 1, Min(width * n, Len(word)))]

\* max_width = self.MAX_WIDTH - (2 * self.MARGIN)
max_width == MAX_WIDTH - 2 * MARGIN

RECURSIVE WrapFrom(_, _, _, _, _, _)
\* The for loop of _wrap_text from word k on.  out is lines, each line with
\* the mark forced: it is a piece that textwrap.wrap cut from a word;
\* current_line is the accumulator and piece tells that it holds nothing
\* but the last piece of such a word.
WrapFrom(fnt, words, k, out, current_line, piece) ==
    IF k > Len(words)
    THEN (IF current_line # <<>>
          THEN Append(out, [line |-> Join(current_line), forced |-> piece])
          ELSE out)
    ELSE IF TextWidth(fnt, Join(Append(current_line, words[k]))) <= max_width
    THEN WrapFrom(fnt, words, k + 1, out, Append(current_line, words[k]), FALSE)
    ELSE IF current_line # <<>>
    THEN WrapFrom(fnt, words, k + 1,
                  Append(out, [line |-> Join(current_line), forced |-> piece]),
                  <<words[k]>>, FALSE)
    ELSE LET pieces == TextWrap(words[k], WRAP_WIDTH)
         IN WrapFrom(fnt, words, k + 1,
                     out \o [n \in 1..(Len(pieces) - 1) |->
                                [line |-> pieces[n], forced |-> TRUE]],
                     IF pieces # <<>> THEN <<pieces[Len(pieces)]>> ELSE <<>>,
                     TRUE)

\* a _wrap_text that returns one empty line for a text without words
wrap_text_empty_line(s, fnt) ==
    IF Split(s) = <<>> THEN << [line |-> <<>>, forced |-> FALSE] >>
    ELSE WrapFrom(fnt, Split(s), 1, <<>>, <<>>, FALSE)

\* _wrap_text(text, font)
wrap_text(s, fnt) == WrapFrom(fnt, Split(s), 1, <<>>, <<>>, FALSE)

\* the strings of the lines
LinesOf(out) == [n \in 1..Len(out) |-> out[n].line]

RECURSIVE Stack(_, _, _, _)
\* The lines of one loop over lines with a running y: line n is drawn at
\* (x, y) if drawn, and y advances by its step.  rows are records
\* [line, x, h, step, drawn]; the result adds y to each.
Stack(rows, n, y, out) ==
    IF n > Len(rows) THEN out
    ELSE Stack(rows, n + 1, y + rows[n].step, Append(out, rows[n] @@ [y |-> y]))

RECURSIVE SumSteps(_, _)
SumSteps(rows, n) == IF n = 0 THEN 0 ELSE rows[n].step + SumSteps(rows, n - 1)

\* x of a line of _simple_text_to_image (lines 236-241)
AlignX(align, text_width) ==
    IF align = 1 THEN (MAX_WIDTH - text_width) \div 2
    ELSE IF align = 2 THEN MAX_WIDTH - text_width - MARGIN
    ELSE MARGIN

RECURSIVE ParagraphRows(_, _, _, _)
\* lines 206-218: all_lines and line_heights, paragraph by paragraph
ParagraphRows(pars, n, fnt, align) ==
    IF n > Len(pars) THEN <<>>
    ELSE (IF ~IsBlank(pars[n])
          THEN LET ls == LinesOf(wrap_text(pars[n], fnt))
               IN [k \in 1..Len(ls) |->
                     [line |-> ls[k], x |-> AlignX(align, TextWidth(fnt, ls[k])),
                      h |-> TextHeight(fnt, ls[k]),
                      step |-> TextHeight(fnt, ls[k]) + 10, drawn |-> ~IsBlank(ls[k])]]
          ELSE << [line |-> <<>>, x |-> 0, h |-> 0, step |-> LINE_HEIGHT, drawn |-> FALSE] >>)
         \o ParagraphRows(pars, n + 1, fnt, align)

\* _simple_text_to_image(text, align, size): the image allocated (alloc), the
\* image returned (height), the final y (cursor) and the lines with their
\* positions
simple_text_to_image(s, family, align, size) ==
    LET fnt == get_font(family, size)
        rows == ParagraphRows(SplitLines(s), 1, fnt, align)
        total_height == SumSteps(rows, Len(rows))
    IN [alloc |-> total_height, height |-> total_height, cursor |-> total_height,
        lines |-> Stack(rows, 1, 0, <<>>)]

\* lines drawn without the line spacing
SectionRowsTight(s, fnt) ==
    LET ls == LinesOf(wrap_text(s, fnt))
    IN [k \in 1..Len(ls) |->
          [line |-> ls[k], x |-> MARGIN, h |-> TextHeight(fnt, ls[k]),
           step |-> TextHeight(fnt, ls[k]), drawn |-> TRUE]]

\* the lines of the title or the content (lines 287-291 and 296-300)
SectionRows(s, fnt) ==
    LET ls == LinesOf(wrap_text(s, fnt))
    IN [k \in 1..Len(ls) |->
          [line |-> ls[k], x |-> MARGIN, h |-> TextHeight(fnt, ls[k]),
           step |-> TextHeight(fnt, ls[k]) + 15, drawn |-> TRUE]]

\* _tweet_to_image(text): the image is allocated with the estimated height,
\* drawn into, and cropped to max(1, current_y)
tweet_to_image(record, family) ==
    LET username_font == get_font(family, USERNAME_SIZE)
        title_font == get_font(family, TITLE_SIZE)
        content_font == get_font(family, CONTENT_SIZE)
        hashtag_font == get_font(family, HASHTAG_SIZE)
        username == <<"@">> \o record.username
        head_h == Max(TextHeight(username_font, username),
                      TextHeight(hashtag_font, record.date))
        head == << [line |-> username, x |-> MARGIN,
                    h |-> TextHeight(username_font, username), step |-> 0, drawn |-> TRUE],
                   [line |-> record.date,
                    x |-> MAX_WIDTH - TextWidth(hashtag_font, record.date) - MARGIN,
                    h |-> TextHeight(hashtag_font, record.date),
                    step |-> head_h + 50, drawn |-> TRUE] >>
        title == SectionRows(record.title, title_font)
        y_title == 20 + head_h + 50
        y_content == y_title + SumSteps(title, Len(title)) + TITLE_SPACING * 2
        content == IF record.content # <<>>
                   THEN SectionRows(record.content, content_font) ELSE <<>>
        current_y == IF record.content # <<>>
                     THEN y_content + SumSteps(content, Len(content)) + CONTENT_SPACING * 2
                     ELSE y_content
    IN [alloc |-> ESTIMATED_HEIGHT, height |-> Max(1, current_y), cursor |-> current_y,
        lines |-> Stack(head, 1, 20, <<>>) \o Stack(title, 1, y_title, <<>>)
                    \o Stack(content, 1, y_content, <<>>),
        title_lines |-> Len(title), content_lines |-> Len(content)]

\* The texts and records of the model.
Word(c, n) == [k \in 1..n |-> c]

RECURSIVE Concat(_)
Concat(parts) == IF parts = <<>> THEN <<>> ELSE Head(parts) \o Concat(Tail(parts))

Tokens == { <<" ">>, <<"\n">>, <<"W">>, Word("W", WRAP_WIDTH), Word("W", MaxWord) }

Texts == { Concat(t) : t \in UNION { [1..n -> Tokens] : n \in 0..MaxTokens } }

TweetTexts ==
    { Concat(t) : t \in UNION { [1..n -> { <<" ">>, Word("W", WRAP_WIDTH) }] :
                                  n \in 0..MaxTweetTokens } }

Records == [username : { <<"i">> }, title : TweetTexts, content : TweetTexts,
            date : { <<>>, <<"i", "i">> }]

NoTweet == <<>>

\* The records handed to print_text: a title of one line and no content.
TweetRecords ==
    [username : { <<"i">> }, title : { <<"W">>, <<"W", "W">> }, content : { <<>> },
     date : { <<"i", "i">> }]

\* draw.text is a function of the text drawn: the pattern of the pixels of
\* a rendered record is given by its glyphs
Pattern(record) == 1 + ((Len(record.title) + Len(record.content)) % MaxPattern)

\* the image print_text hands to _print_image for a record
TweetImage(record, family) ==
    [height |-> tweet_to_image(record, family).height, pat |-> Pattern(record)]

TweetImages == { TweetImage(r, NarrowFamily) : r \in TweetRecords }

\* The blocks of every image and raster configuration of the model.
\* BuildBlock is a function of the image and the two raster settings; the
\* table is merged with the empty function so that TLC builds it once
\* instead of at every step.
BlockKeys ==
    { <<raster_threshold(q[1]), invert_raster(q[1]), q[2], q[3]>> :
        q \in { p \in Configs \X Images \X {BLOCK_ROWS * k : k \in 0..(MaxHeight \div BLOCK_ROWS)} :
                  p[2] \in Renderable(p[1]) } }
    \cup
    { <<raster_threshold(NoKeys), invert_raster(NoKeys), image, s>> :
        image \in TweetImages, s \in {BLOCK_ROWS * k : k \in 0..(MaxHeight \div BLOCK_ROWS)} }

BlockTable ==
    [k \in {b \in BlockKeys : b[4] \in BlockStarts(b[3])} |->
        BuildBlock(k[1], k[2], k[3], k[4])] @@ <<>>

RasterBlock(config, image, first_row) ==
    BlockTable[<<raster_threshold(config), invert_raster(config), image, first_row>>]

(***************************************************************************)
(* TweetReader (tweet_reader.py).  A row of tweets.csv is a record of its  *)
(* four columns; username, content and printed are strings of characters,  *)
(* the date is only compared for equality.                                 *)
(***************************************************************************)
LowerChar(c) ==
    CASE c = "T" -> "t" [] c = "R" -> "r" [] c = "U" -> "u" [] c = "E" -> "e"
      [] c = "F" -> "f" [] c = "A" -> "a" [] c = "L" -> "l" [] c = "S" -> "s"
      [] OTHER -> c

\* str.lower()
Lower(s) == [i \in 1..Len(s) |-> LowerChar(s[i])]

RECURSIVE LStrip(_)
LStrip(s) == IF s # <<>> /\ Head(s) = " " THEN LStrip(Tail(s)) ELSE s

RECURSIVE RStrip(_)
RStrip(s) == IF s # <<>> /\ s[Len(s)] = " " THEN RStrip(SubSeq(s, 1, Len(s) - 1)) ELSE s

\* str.strip()
Strip(s) == RStrip(LStrip(s))

\* row['printed'].lower() == 'true'
ParsePrinted(s) == Lower(s) = <<"t", "r", "u", "e">>

\* str(b), as csv.DictWriter writes a bool
Str(b) == IF b THEN <<"T", "r", "u", "e">> ELSE <<"F", "a", "l", "s", "e">>

\* str(b).upper()
StrUpper(b) == IF b THEN <<"T", "R", "U", "E">> ELSE <<"F", "A", "L", "S", "E">>

\* The rows a tweets.csv may hold.
Usernames == { <<"u">>, <<"u", " ">>, <<"v">> }
Contents == { <<>>, <<"x">> }
Dates == { "01.08.13", "10.10.2016" }
PrintedColumn == { <<"F", "A", "L", "S", "E">>, <<"T", "R", "U", "E">>, <<"T", "r", "u", "e">> }

CsvRows == [username : Usernames, content : Contents, date : Dates, printed : PrintedColumn]

CsvFiles == UNION { [1..n -> CsvRows] : n \in 0..MaxRows }

\* key = (row['username'], row['date'])
Key(row) == <<row.username, row.date>>

RECURSIVE ReadFrom(_, _, _, _)
\* The while loop of _read_tweets from row i on (rows are numbered from 1).
\* mem holds self._last_read_rows with the printed column of the rows in
\* done already replaced by a bool; tweets are the paired rows found so far,
\* each the number of its row (the dict of the row itself is in the list) and
\* its english_content.  Line 31 calls .lower() on the printed column of row
\* i: if line 36 of the pass before has already replaced it by a bool, this
\* raises AttributeError.
ReadFrom(mem, i, done, tweets) ==
    IF i > Len(mem) THEN [ok |-> TRUE, rows |-> mem, tweets |-> tweets]
    ELSE IF i \in done THEN [ok |-> FALSE, rows |-> mem, tweets |-> tweets]
    ELSE
      LET mem1 == [mem EXCEPT ![i].printed = ParsePrinted(mem[i].printed)]
      IN IF i + 1 <= Len(mem)
         THEN LET mem2 == [mem1 EXCEPT ![i + 1].printed = ParsePrinted(mem[i + 1].printed)]
                  done2 == done \cup {i, i + 1}
              IN IF Strip(mem[i].username) = Strip(mem[i + 1].username)
                 THEN ReadFrom(mem2, i + 2, done2,
                               Append(tweets, [row |-> i, english_content |-> mem[i + 1].content]))
                 ELSE IF Strip(mem[i].content) # <<>>
                 THEN ReadFrom(mem2, i + 1, done2,
                               Append(tweets, [row |-> i, english_content |-> <<>>]))
                 ELSE ReadFrom(mem2, i + 1, done2, tweets)
         ELSE IF Strip(mem[i].content) # <<>>
         THEN ReadFrom(mem1, i + 1, done \cup {i},
                       Append(tweets, [row |-> i, english_content |-> <<>>]))
         ELSE ReadFrom(mem1, i + 1, done \cup {i}, tweets)

\* _read_tweets
ReadTweets(rows) == ReadFrom(rows, 1, {}, <<>>)

\* the tweets of the list that are not printed: t for t in tweets if not
\* t['printed']
Unprinted(mem, tweets) == { k \in 1..Len(tweets) : ~mem[tweets[k].row].printed }

\* lines 139-143: the first tweet of the list with the username and date of
\* the chosen one is marked, in the row it is
MarkPrinted(mem, tweets, chosen) ==
    LET same == { k \in 1..Len(tweets) : Key(mem[tweets[k].row]) = Key(mem[tweets[chosen].row]) }
        first == CHOOSE k \in same : \A j \in same : k <= j
    IN [mem EXCEPT ![tweets[first].row].printed = TRUE]

\* lines 96-99: tweet_status[key], the status of the last tweet with the key
TweetStatus(mem, tweets, key) ==
    LET with == { k \in 1..Len(tweets) : Key(mem[tweets[k].row]) = key }
        last == CHOOSE k \in with : \A j \in with : k >= j
    IN mem[tweets[last].row].printed

\* _write_tweets: the rows written to the file
WriteTweets(mem, tweets) ==
    [n \in 1..Len(mem) |->
        IF \E k \in 1..Len(tweets) : Key(mem[tweets[k].row]) = Key(mem[n])
        THEN [mem[n] EXCEPT !.printed = StrUpper(TweetStatus(mem, tweets, Key(mem[n])))]
        ELSE [mem[n] EXCEPT !.printed = Str(mem[n].printed)]]

(***************************************************************************)
(* The state.                                                              *)
(***************************************************************************)
VARIABLES
    pc,         \* main()'s position
    cfg,        \* config['printer']
    handle,     \* self.handle: "none", the opened port, or "closed"
    matched,    \* whether the enumerated ports held a printer (0483:5740)
    error,      \* the exception that left main(), "none" if none did
    init_i,     \* the command _initialize_printer sends next (1..4)
    call,       \* the print call in progress: "none", "startup", "tweet"
    ppc,        \* the position inside that call
    img,        \* the rendered image of the call
    start_y,    \* loop variable of _print_image
    phase,      \* which _feed_lines call runs: "feed" or "gap"
    remaining,  \* loop variable of _feed_lines
    ret,        \* the value the call returned
    raised,     \* the position at which the call raised an exception, or "none"
    dev,        \* the writes the handle received since connect / job start
    unsettled,  \* WriteFile calls issued since the last time.sleep
    text,       \* the text handed to _wrap_text / _simple_text_to_image
    font,       \* the font _get_font returned
    wrapped,    \* the lines _wrap_text returned
    tweet,      \* the record handed to _tweet_to_image / print_text
    canvas,     \* the image a renderer allocated and what it drew into it
    pixel,      \* a grey value of the image handed to _print_image
    packed,     \* that pixel after lines 308-312 of _print_image
    csv,        \* the rows of tweets.csv
    got,        \* what get_random_unprinted_tweet returned
    prev,       \* the record and the writes of the print_text call before
    read,       \* the last call of _read_tweets: what it read and returned
    buffer,     \* TweetBuffer.buffer, oldest tweet first
    last_tweet_ids,  \* TweetBuffer.last_tweet_ids
    state_file, \* the contents of tweet_buffer_state.json
    max_size,   \* TweetBuffer.max_size
    accepted,   \* the tweets add_tweet appended, in the order of the calls
    returned,   \* the tweets get_next_tweet returned, in the order of the calls
    last_op,    \* the last TweetBuffer operation and the state it started in
    clock,      \* what time.time() returns now
    current_time,     \* current_time of the loop iteration of main()
    last_print_time,  \* last_print_time of main()
    interval,   \* TWEET_INTERVAL_SECONDS
    lpc,        \* the position inside the loop iteration
    attempts    \* current_time of the last two iterations that called print_text

printerVars == <<pc, cfg, handle, matched, error, init_i, call, ppc, img, start_y,
                 phase, remaining, ret, raised, dev, unsettled>>
layoutVars == <<text, font, wrapped, tweet, canvas>>
pixelVars == <<pixel, packed>>
readerVars == <<csv, got, read>>
bufferVars == <<buffer, last_tweet_ids, state_file, max_size, accepted, returned, last_op>>
loopVars == <<clock, current_time, last_print_time, interval, lpc, attempts>>

vars == <<printerVars, layoutVars, pixelVars, readerVars, prev, bufferVars, loopVars>>

mainVars == <<pc, handle, matched, error, init_i>>
jobVars == <<call, ppc, img, start_y, phase, remaining, ret, raised>>

\* the parts of the state a specification does not use keep these values
NoLayout ==
    /\ text = <<>>
    /\ font = <<>>
    /\ wrapped = [returned |-> FALSE]
    /\ tweet = <<>>
    /\ canvas = [returned |-> FALSE]

NoPixel ==
    /\ pixel = 0
    /\ packed = 0

NoReader ==
    /\ csv = <<>>
    /\ got = <<>>
    /\ read = [called |-> FALSE]

NoPrev == prev = <<>>

NoBuffer ==
    /\ buffer = <<>>
    /\ last_tweet_ids = <<>>
    /\ state_file = <<>>
    /\ max_size = 0
    /\ accepted = <<>>
    /\ returned = <<>>
    /\ last_op = <<>>

NoLoop ==
    /\ clock = 0
    /\ current_time = 0
    /\ last_print_time = 0
    /\ interval = 0
    /\ lpc = "none"
    /\ attempts = <<>>

\* a long write split into its first 8 bytes and the rest
WriteFileSplit(log, data) ==
    IF Len(data) > 8
    THEN log \o <<SubSeq(data, 1, 8), SubSeq(data, 9, Len(data))>>
    ELSE Append(log, data)

\* win32file.WriteFile(self.handle, data): one write of exactly data
WriteFile(log, data) == Append(log, data)

\* the WriteFile calls not yet followed by a delay, after a WriteFile call
AfterWrite(u) == u + 1

\* a delay that settles nothing
AfterSleepSkipped(u) == u

\* ... and after time.sleep
AfterSleep(u) == 0

Init ==
    /\ pc = "Connect"
    /\ cfg \in Configs
    /\ handle = "none"
    /\ matched = FALSE
    /\ error = "none"
    /\ init_i = 1
    /\ call = "none"
    /\ ppc = "idle"
    /\ img = NoImage
    /\ start_y = 0
    /\ phase = "none"
    /\ remaining = 0
    /\ ret = "none"
    /\ raised = "none"
    /\ dev = <<>>
    /\ unsettled = 0
    /\ NoLayout
    /\ NoPixel
    /\ NoReader
    /\ NoPrev
    /\ NoBuffer
    /\ NoLoop

(***************************************************************************)
(* M08FPrinter.__init__ (main line 54).                                    *)
(***************************************************************************)
\* find_printer_port, then either the "not found" exception or CreateFile
Connect ==
    /\ pc = "Connect"
    /\ \E ports \in PortLists :
         LET port == find_printer_port(ports) IN
         /\ matched' = (\E i \in 1..Len(ports) : IsPrinter(ports[i]))
         /\ IF port = None
            THEN /\ pc' = "Crashed"
                 /\ error' = "not_found"
                 /\ handle' = handle
            ELSE /\ pc' = "Init"
                 /\ error' = error
                 /\ handle' = port
    /\ UNCHANGED <<cfg, init_i, dev, unsettled>>
    /\ UNCHANGED jobVars

    /\ UNCHANGED <<layoutVars, pixelVars, readerVars, prev, bufferVars, loopVars>>
\* CreateFile / SetCommState / SetCommTimeouts raises
ConnectFails ==
    /\ pc = "Connect"
    /\ \E ports \in PortLists :
         /\ find_printer_port(ports) # None
         /\ matched' = (\E i \in 1..Len(ports) : IsPrinter(ports[i]))
    /\ pc' = "Crashed"
    /\ error' = "io"
    /\ UNCHANGED <<cfg, handle, init_i, dev, unsettled>>
    /\ UNCHANGED jobVars

    /\ UNCHANGED <<layoutVars, pixelVars, readerVars, prev, bufferVars, loopVars>>
\* _write: WriteFile of the next initialization command
InitWrite ==
    /\ pc = "Init"
    /\ dev' = WriteFile(dev, InitCommands(cfg)[init_i])
    /\ unsettled' = AfterWrite(unsettled)
    /\ pc' = "InitSleep"
    /\ UNCHANGED <<cfg, handle, matched, error, init_i>>
    /\ UNCHANGED jobVars

    /\ UNCHANGED <<layoutVars, pixelVars, readerVars, prev, bufferVars, loopVars>>
\* _write: WriteFile raises; nothing in main() catches it
InitWriteFails ==
    /\ pc = "Init"
    /\ unsettled' = AfterWrite(unsettled)
    /\ pc' = "Crashed"
    /\ error' = "io"
    /\ UNCHANGED <<cfg, handle, matched, init_i, dev>>
    /\ UNCHANGED jobVars

    /\ UNCHANGED <<layoutVars, pixelVars, readerVars, prev, bufferVars, loopVars>>
\* _write: time.sleep(0.02), then the next command or the end of __init__
InitSleep ==
    /\ pc = "InitSleep"
    /\ unsettled' = AfterSleep(unsettled)
    /\ IF init_i < Len(InitCommands(cfg))
       THEN /\ init_i' = init_i + 1
            /\ pc' = "Init"
       ELSE /\ init_i' = init_i
            /\ pc' = "ResetTweets"
    /\ UNCHANGED <<cfg, handle, matched, error, dev>>
    /\ UNCHANGED jobVars

    /\ UNCHANGED <<layoutVars, pixelVars, readerVars, prev, bufferVars, loopVars>>
\* main lines 56-76: the tweets are reset, then print_startup_message is called
ResetTweets ==
    /\ pc = "ResetTweets"
    /\ pc' = "Startup"
    /\ call' = "startup"
    /\ ppc' = "Render"
    /\ dev' = <<>>
    /\ UNCHANGED <<cfg, handle, matched, error, init_i, unsettled>>
    /\ UNCHANGED <<img, start_y, phase, remaining, ret, raised>>

    /\ UNCHANGED <<layoutVars, pixelVars, readerVars, prev, bufferVars, loopVars>>
(***************************************************************************)
(* print_text and print_startup_message: render, _print_image, feed.       *)
(***************************************************************************)
\* return True
ReturnTrue ==
    /\ ret' = "True"
    /\ ppc' = "Returned"
    /\ UNCHANGED <<phase, remaining>>

\* _feed_lines(lines) up to its first write
EnterFeed(lines, ph) ==
    /\ lines > 0
    /\ remaining' = lines
    /\ phase' = ph
    /\ ppc' = "Feed"
    /\ ret' = ret

\* print_text lines 356-366, after _print_image returned
AfterPrintImage ==
    IF call = "tweet" /\ GapLines(cfg) > 0
    THEN EnterFeed(GapLines(cfg), "gap")
    ELSE ReturnTrue

\* _print_image lines 334-336, after the last raster block
AfterBlocks ==
    IF FeedLines(cfg) > 0
    THEN EnterFeed(FeedLines(cfg), "feed")
    ELSE AfterPrintImage

\* the failed step is tried again
OnExceptionRetry(position) == [ppc |-> position, ret |-> "none"]

\* except Exception: return False
OnException(position) == [ppc |-> "Returned", ret |-> "False"]

\* _tweet_to_image / _simple_text_to_image returns the image
Render ==
    /\ ppc = "Render"
    /\ \E i \in Renderable(cfg) : img' = i
    /\ start_y' = 0
    /\ ppc' = "Block"
    /\ UNCHANGED <<cfg, dev, unsettled>>
    /\ UNCHANGED mainVars
    /\ UNCHANGED <<call, phase, remaining, ret, raised>>

    /\ UNCHANGED <<layoutVars, pixelVars, readerVars, prev, bufferVars, loopVars>>
\* anything before _print_image raises (a missing key, a rendering error)
RenderFails ==
    /\ ppc = "Render"
    /\ raised' = "Render"
    /\ ppc' = "Raised"
    /\ UNCHANGED <<cfg, dev, unsettled>>
    /\ UNCHANGED mainVars
    /\ UNCHANGED <<call, img, start_y, phase, remaining, ret>>

    /\ UNCHANGED <<layoutVars, pixelVars, readerVars, prev, bufferVars, loopVars>>
\* _print_image line 331: the block of rows start_y.. is written
WriteBlock ==
    /\ ppc = "Block"
    /\ dev' = WriteFile(dev, RasterBlock(cfg, img, start_y))
    /\ unsettled' = AfterWrite(unsettled)
    /\ ppc' = "BlockSleep"
    /\ UNCHANGED cfg
    /\ UNCHANGED mainVars
    /\ UNCHANGED <<call, img, start_y, phase, remaining, ret, raised>>

    /\ UNCHANGED <<layoutVars, pixelVars, readerVars, prev, bufferVars, loopVars>>
\* _print_image line 332, then the next pass of the loop or the feed
BlockSleep ==
    /\ ppc = "BlockSleep"
    /\ unsettled' = AfterSleep(unsettled)
    /\ IF start_y + BLOCK_ROWS < img.height
       THEN /\ start_y' = start_y + BLOCK_ROWS
            /\ ppc' = "Block"
            /\ UNCHANGED <<phase, remaining, ret>>
       ELSE /\ start_y' = start_y
            /\ AfterBlocks
    /\ UNCHANGED <<cfg, dev>>
    /\ UNCHANGED mainVars
    /\ UNCHANGED <<call, img, raised>>

    /\ UNCHANGED <<layoutVars, pixelVars, readerVars, prev, bufferVars, loopVars>>
\* _feed_lines line 141: one chunk of line feeds is written
FeedWrite ==
    /\ ppc = "Feed"
    /\ dev' = WriteFile(dev, LineFeeds(FeedChunk(remaining)))
    /\ unsettled' = AfterWrite(unsettled)
    /\ ppc' = "FeedSleep"
    /\ UNCHANGED cfg
    /\ UNCHANGED mainVars
    /\ UNCHANGED <<call, img, start_y, phase, remaining, ret, raised>>

    /\ UNCHANGED <<layoutVars, pixelVars, readerVars, prev, bufferVars, loopVars>>
\* _feed_lines lines 142-143, then the next chunk or the return
FeedSleep ==
    /\ ppc = "FeedSleep"
    /\ unsettled' = AfterSleep(unsettled)
    /\ IF remaining - FeedChunk(remaining) > 0
       THEN /\ remaining' = remaining - FeedChunk(remaining)
            /\ ppc' = "Feed"
            /\ UNCHANGED <<phase, ret>>
       ELSE IF phase = "feed"
            THEN AfterPrintImage
            ELSE ReturnTrue
    /\ UNCHANGED <<cfg, dev>>
    /\ UNCHANGED mainVars
    /\ UNCHANGED <<call, img, start_y, raised>>

    /\ UNCHANGED <<layoutVars, pixelVars, readerVars, prev, bufferVars, loopVars>>
\* WriteFile raises in _print_image or _feed_lines
WriteFails ==
    /\ ppc \in {"Block", "Feed"}
    /\ unsettled' = AfterWrite(unsettled)
    /\ raised' = ppc
    /\ ppc' = "Raised"
    /\ UNCHANGED <<cfg, dev>>
    /\ UNCHANGED mainVars
    /\ UNCHANGED <<call, img, start_y, phase, remaining, ret>>

    /\ UNCHANGED <<layoutVars, pixelVars, readerVars, prev, bufferVars, loopVars>>
\* the except clause of print_text / print_startup_message
Except ==
    /\ ppc = "Raised"
    /\ ppc' = OnException(raised).ppc
    /\ ret' = OnException(raised).ret
    /\ UNCHANGED <<cfg, dev, unsettled>>
    /\ UNCHANGED mainVars
    /\ UNCHANGED <<call, img, start_y, phase, remaining, raised>>

    /\ UNCHANGED <<layoutVars, pixelVars, readerVars, prev, bufferVars, loopVars>>
(***************************************************************************)
(* main(): the startup message and the loop.                               *)
(***************************************************************************)
\* the call's image and frames are dropped when it returns
DropJob ==
    /\ call' = "none"
    /\ ppc' = "idle"
    /\ img' = NoImage
    /\ start_y' = 0
    /\ phase' = "none"
    /\ remaining' = 0
    /\ ret' = "none"
    /\ raised' = "none"
    /\ dev' = <<>>

\* main lines 76-83
StartupReturns ==
    /\ pc = "Startup"
    /\ ppc = "Returned"
    /\ pc' = IF ret = "True" THEN "Loop" ELSE "Returned"
    /\ DropJob
    /\ UNCHANGED <<cfg, handle, matched, error, init_i, unsettled>>

    /\ UNCHANGED <<layoutVars, pixelVars, readerVars, prev, bufferVars, loopVars>>
\* ESC is pressed: the loop ends and the finally clause closes the printer
EscPressed ==
    /\ pc = "Loop"
    /\ pc' = "Closed"
    /\ handle' = "closed"
    /\ UNCHANGED <<cfg, matched, error, init_i, dev, unsettled>>
    /\ UNCHANGED jobVars

    /\ UNCHANGED <<layoutVars, pixelVars, readerVars, prev, bufferVars, loopVars>>
\* main line 90: the interval has not passed yet
LoopIdle ==
    /\ pc = "Loop"
    /\ pc' = "LoopSleep"
    /\ UNCHANGED <<cfg, handle, matched, error, init_i, dev, unsettled>>
    /\ UNCHANGED jobVars

    /\ UNCHANGED <<layoutVars, pixelVars, readerVars, prev, bufferVars, loopVars>>
\* main lines 107-114: no unprinted tweet, the tweets are reset
LoopNoTweet ==
    /\ pc = "Loop"
    /\ pc' = "LoopSleep"
    /\ unsettled' = AfterSleep(unsettled)
    /\ UNCHANGED <<cfg, handle, matched, error, init_i, dev>>
    /\ UNCHANGED jobVars

    /\ UNCHANGED <<layoutVars, pixelVars, readerVars, prev, bufferVars, loopVars>>
\* main lines 92-101: a tweet is handed to print_text
LoopPrint ==
    /\ pc = "Loop"
    /\ pc' = "Printing"
    /\ call' = "tweet"
    /\ ppc' = "Render"
    /\ UNCHANGED <<cfg, handle, matched, error, init_i, dev, unsettled>>
    /\ UNCHANGED <<img, start_y, phase, remaining, ret, raised>>

    /\ UNCHANGED <<layoutVars, pixelVars, readerVars, prev, bufferVars, loopVars>>
\* main lines 101-106
PrintReturns ==
    /\ pc = "Printing"
    /\ ppc = "Returned"
    /\ pc' = "LoopSleep"
    /\ DropJob
    /\ UNCHANGED <<cfg, handle, matched, error, init_i, unsettled>>

    /\ UNCHANGED <<layoutVars, pixelVars, readerVars, prev, bufferVars, loopVars>>
\* main line 116: time.sleep(1)
LoopSleep ==
    /\ pc = "LoopSleep"
    /\ unsettled' = AfterSleep(unsettled)
    /\ pc' = "Loop"
    /\ UNCHANGED <<cfg, handle, matched, error, init_i, dev>>
    /\ UNCHANGED jobVars

    /\ UNCHANGED <<layoutVars, pixelVars, readerVars, prev, bufferVars, loopVars>>
Next ==
    \/ Connect
    \/ ConnectFails
    \/ InitWrite
    \/ InitWriteFails
    \/ InitSleep
    \/ ResetTweets
    \/ Render
    \/ RenderFails
    \/ WriteBlock
    \/ BlockSleep
    \/ FeedWrite
    \/ FeedSleep
    \/ WriteFails
    \/ Except
    \/ StartupReturns
    \/ EscPressed
    \/ LoopIdle
    \/ LoopNoTweet
    \/ LoopPrint
    \/ PrintReturns
    \/ LoopSleep

Spec == Init /\ [][Next]_vars

(***************************************************************************)
(* The block loop of _print_image alone, for every image and raster        *)
(* configuration: print_text has rendered the image and enters the loop.   *)
(***************************************************************************)
InitFrame ==
    /\ pc = "Printing"
    /\ cfg \in RasterConfigs
    /\ handle = "COM3"
    /\ matched = TRUE
    /\ error = "none"
    /\ init_i = 4
    /\ call = "tweet"
    /\ ppc = "Block"
    /\ img \in Renderable(cfg)
    /\ start_y = 0
    /\ phase = "none"
    /\ remaining = 0
    /\ ret = "none"
    /\ raised = "none"
    /\ dev = <<>>
    /\ unsettled = 0
    /\ NoLayout
    /\ NoPixel
    /\ NoReader
    /\ NoPrev
    /\ NoBuffer
    /\ NoLoop

NextFrame ==
    \/ WriteBlock
    \/ BlockSleep

SpecFrame == InitFrame /\ [][NextFrame]_vars

(***************************************************************************)
(* _initialize_printer alone, for every configured print_density and       *)
(* print_speed: __init__ has opened the port and calls it.                 *)
(***************************************************************************)
InitParams ==
    /\ pc = "Init"
    /\ cfg \in ParamConfigs
    /\ handle = "COM3"
    /\ matched = TRUE
    /\ error = "none"
    /\ init_i = 1
    /\ call = "none"
    /\ ppc = "idle"
    /\ img = NoImage
    /\ start_y = 0
    /\ phase = "none"
    /\ remaining = 0
    /\ ret = "none"
    /\ raised = "none"
    /\ dev = <<>>
    /\ unsettled = 0
    /\ NoLayout
    /\ NoPixel
    /\ NoReader
    /\ NoPrev
    /\ NoBuffer
    /\ NoLoop

NextParams ==
    \/ InitWrite
    \/ InitWriteFails
    \/ InitSleep

SpecParams == InitParams /\ [][NextParams]_vars

(***************************************************************************)
(* Lines 308-312 of _print_image alone, for every grey value of a pixel    *)
(* and every raster_threshold and invert_raster.                           *)
(***************************************************************************)
InitPixel ==
    /\ pc = "Printing"
    /\ cfg \in PixelConfigs
    /\ handle = "COM3"
    /\ matched = TRUE
    /\ error = "none"
    /\ init_i = 4
    /\ call = "tweet"
    /\ ppc = "Threshold"
    /\ img = NoImage
    /\ start_y = 0
    /\ phase = "none"
    /\ remaining = 0
    /\ ret = "none"
    /\ raised = "none"
    /\ dev = <<>>
    /\ unsettled = 0
    /\ pixel \in 0..255
    /\ packed = 0
    /\ NoLayout
    /\ NoReader
    /\ NoPrev
    /\ NoBuffer
    /\ NoLoop

\* img.convert('L'), ImageOps.invert, img.point, img.convert('1')
Threshold ==
    /\ ppc = "Threshold"
    /\ packed' = RasterValue(raster_threshold(cfg), invert_raster(cfg), pixel)
    /\ ppc' = "Block"
    /\ UNCHANGED <<cfg, dev, unsettled, pixel>>
    /\ UNCHANGED mainVars
    /\ UNCHANGED <<call, img, start_y, phase, remaining, ret, raised>>
    /\ UNCHANGED <<layoutVars, readerVars, prev, bufferVars, loopVars>>

NextPixel == Threshold

SpecPixel == InitPixel /\ [][NextPixel]_vars

(***************************************************************************)
(* The printer connected and initialized, main() in its loop, no print     *)
(* call in progress.                                                       *)
(***************************************************************************)
PrinterReady ==
    /\ pc = "Loop"
    /\ cfg = NoKeys
    /\ handle = "COM3"
    /\ matched = TRUE
    /\ error = "none"
    /\ init_i = 4
    /\ call = "none"
    /\ ppc = "idle"
    /\ img = NoImage
    /\ start_y = 0
    /\ phase = "none"
    /\ remaining = 0
    /\ ret = "none"
    /\ raised = "none"
    /\ dev = <<>>
    /\ unsettled = 0

(***************************************************************************)
(* TweetReader.get_random_unprinted_tweet, called again and again on every *)
(* tweets.csv of up to MaxRows rows (main line 92).                        *)
(***************************************************************************)
InitReader ==
    /\ PrinterReady
    /\ csv \in CsvFiles
    /\ got = [kind |-> "idle", row |-> 0, before |-> <<>>, seen |-> {}]
    /\ read = [called |-> FALSE]
    /\ NoLayout
    /\ NoPixel
    /\ NoPrev
    /\ NoBuffer
    /\ NoLoop

\* what a call of _read_tweets on the file rows did, for the caller by
Called(by, rows) ==
    LET r == ReadTweets(rows)
    IN [called |-> TRUE, by |-> by, before |-> rows, ok |-> r.ok, tweets |-> r.tweets]

\* One call.  got.kind is "tweet" (got.row is the row of the returned tweet
\* and got.tweet the returned dict), "None", or "raised" when _read_tweets
\* raised; got.before is the file before the call and got.seen the rows the
\* calls before returned.
get_random_unprinted_tweet ==
    /\ got.kind # "raised"
    /\ LET r == ReadTweets(csv)
           seen == IF got.kind = "tweet" THEN got.seen \cup {got.row} ELSE got.seen
       IN IF ~r.ok
          THEN /\ got' = [kind |-> "raised", row |-> 0, before |-> csv, seen |-> seen]
               /\ csv' = csv
          ELSE IF r.tweets = <<>> \/ Unprinted(r.rows, r.tweets) = {}
          THEN /\ got' = [kind |-> "None", row |-> 0, before |-> csv, seen |-> seen]
               /\ csv' = csv
          ELSE \E k \in Unprinted(r.rows, r.tweets) :
               /\ got' = [kind |-> "tweet", row |-> r.tweets[k].row, before |-> csv,
                          seen |-> seen,
                          tweet |-> [username |-> csv[r.tweets[k].row].username,
                                     title |-> csv[r.tweets[k].row].content,
                                     content |-> r.tweets[k].english_content,
                                     date |-> csv[r.tweets[k].row].date]]
               /\ csv' = WriteTweets(MarkPrinted(r.rows, r.tweets, k), r.tweets)
    /\ read' = Called("get_random_unprinted_tweet", csv)
    /\ UNCHANGED <<printerVars, layoutVars, pixelVars, prev, bufferVars, loopVars>>

NextReader == get_random_unprinted_tweet

SpecReader == InitReader /\ [][NextReader]_vars

(***************************************************************************)
(* The tweets of main(): the reset at program start (lines 56-61), then    *)
(* get_random_unprinted_tweet once per print (line 92), and the reset      *)
(* again when it returned None (lines 107-113).                            *)
(***************************************************************************)
\* for tweet in tweets: tweet['printed'] = False
AllUnprinted(mem, tweets) ==
    [n \in 1..Len(mem) |->
        IF \E k \in 1..Len(tweets) : tweets[k].row = n
        THEN [mem[n] EXCEPT !.printed = FALSE]
        ELSE mem[n]]

\* tweets = tweet_reader._read_tweets(); ...; tweet_reader._write_tweets(tweets).
\* An exception of _read_tweets leaves main(): at program start uncaught, in
\* the loop through "except Exception" of line 120.
reset_tweets ==
    /\ got.kind \in {"idle", "None"}
    /\ LET r == ReadTweets(csv)
       IN IF ~r.ok
          THEN /\ got' = [kind |-> "raised", row |-> 0, before |-> csv, seen |-> {}]
               /\ csv' = csv
          ELSE /\ got' = [kind |-> "reset", row |-> 0, before |-> csv, seen |-> {}]
               /\ csv' = WriteTweets(AllUnprinted(r.rows, r.tweets), r.tweets)
    /\ read' = Called("main", csv)
    /\ UNCHANGED <<printerVars, layoutVars, pixelVars, prev, bufferVars, loopVars>>

\* line 92: the loop is entered after the reset of lines 56-61 only
next_tweet ==
    /\ got.kind \in {"reset", "tweet"}
    /\ get_random_unprinted_tweet

NextMainLoop ==
    \/ reset_tweets
    \/ next_tweet

SpecMainLoop == InitReader /\ [][NextMainLoop]_vars

(***************************************************************************)
(* The timing of the loop of main() (lines 63-116): the clock, the         *)
(* interval test and last_print_time; what the reader and the printer do   *)
(* is any of their outcomes.                                               *)
(***************************************************************************)
\* the clock values of the model
MaxTime == 7

\* the largest interval of the model, in seconds
MaxInterval == 3

\* TWEET_INTERVAL_SECONDS = interval_minutes * 60 for any number the
\* configuration holds, also zero and negative ones
Intervals == (0 - 1)..MaxInterval

\* how far time.time() moves while the program sleeps or prints: forward,
\* or back by a second when the system clock is set
ClockSteps == (0 - 1)..2

\* what print_text did: returned True, returned False, raised
PrintOutcomes == {"True", "False", "raised"}

\* last_print_time after a print attempt that only counts when it printed
LastPrintTimeOnSuccess(outcome, now, last) == IF outcome = "True" THEN now ELSE last

\* line 106, reached after the try/except of lines 94-105 whatever
\* print_text did: last_print_time = current_time
LastPrintTime(outcome, now, last) == now

\* the last two entries of a history
LastTwo(history) ==
    IF Len(history) > 2 THEN SubSeq(history, Len(history) - 1, Len(history)) ELSE history

InitLoop ==
    /\ PrinterReady
    /\ NoLayout
    /\ NoPixel
    /\ NoReader
    /\ NoPrev
    /\ NoBuffer
    /\ clock \in 0..MaxInterval
    /\ current_time = 0
    /\ last_print_time = 0
    /\ interval \in Intervals
    /\ lpc = "While"
    /\ attempts = <<>>

\* lines 85-90: the loop test, current_time = time.time(), the interval test
Iterate ==
    /\ lpc = "While"
    /\ current_time' = clock
    /\ lpc' = IF clock - last_print_time >= interval THEN "Fetch" ELSE "Sleep"
    /\ UNCHANGED <<clock, last_print_time, interval, attempts>>
    /\ UNCHANGED <<printerVars, layoutVars, pixelVars, readerVars, prev, bufferVars>>

\* line 92 with "if tweet" true
FetchTweet ==
    /\ lpc = "Fetch"
    /\ lpc' = "Print"
    /\ UNCHANGED <<clock, current_time, last_print_time, interval, attempts>>
    /\ UNCHANGED <<printerVars, layoutVars, pixelVars, readerVars, prev, bufferVars>>

\* line 92 with "if tweet" false: the reset of lines 107-113 and time.sleep(5)
FetchNone ==
    /\ lpc = "Fetch"
    /\ \E d \in ClockSteps :
         /\ clock + d \in 0..MaxTime
         /\ clock' = clock + d
    /\ lpc' = "Sleep"
    /\ UNCHANGED <<current_time, last_print_time, interval, attempts>>
    /\ UNCHANGED <<printerVars, layoutVars, pixelVars, readerVars, prev, bufferVars>>

\* lines 94-106: print_text with any outcome, then last_print_time
PrintAttempt ==
    /\ lpc = "Print"
    /\ \E outcome \in PrintOutcomes, d \in ClockSteps :
         /\ clock + d \in 0..MaxTime
         /\ clock' = clock + d
         /\ last_print_time' = LastPrintTime(outcome, current_time, last_print_time)
         /\ attempts' = LastTwo(Append(attempts, [at |-> current_time, outcome |-> outcome]))
    /\ lpc' = "Sleep"
    /\ UNCHANGED <<current_time, interval>>
    /\ UNCHANGED <<printerVars, layoutVars, pixelVars, readerVars, prev, bufferVars>>

\* line 116: time.sleep(1)
SleepOne ==
    /\ lpc = "Sleep"
    /\ \E d \in ClockSteps :
         /\ clock + d \in 0..MaxTime
         /\ clock' = clock + d
    /\ lpc' = "While"
    /\ UNCHANGED <<current_time, last_print_time, interval, attempts>>
    /\ UNCHANGED <<printerVars, layoutVars, pixelVars, readerVars, prev, bufferVars>>

\* line 85 with ESC pressed: the loop ends
EscEndsLoop ==
    /\ lpc = "While"
    /\ lpc' = "Done"
    /\ UNCHANGED <<clock, current_time, last_print_time, interval, attempts>>
    /\ UNCHANGED <<printerVars, layoutVars, pixelVars, readerVars, prev, bufferVars>>

NextLoop ==
    \/ Iterate
    \/ FetchTweet
    \/ FetchNone
    \/ PrintAttempt
    \/ SleepOne
    \/ EscEndsLoop

SpecLoop == InitLoop /\ [][NextLoop]_vars

(***************************************************************************)
(* TweetBuffer (buffer.py): the deque, last_tweet_ids and the state file,  *)
(* under any sequence of add_tweet, add_tweets and get_next_tweet calls    *)
(* and of restarts that construct the buffer again from the state file.    *)
(***************************************************************************)
\* the largest tweet id of the model
MaxId == 2

\* the largest max_size of the model
MaxSize == 2

BufferUsers == {"a", "b"}

\* the tweets handed to add_tweet: without the key 'id', with id 0, and
\* with an id from 1 to MaxId
BufferTweets ==
    [username : BufferUsers] \cup [id : 0..MaxId, username : BufferUsers]

\* the tweets of the lists handed to add_tweets
BatchTweets == [id : 1..MaxId, username : BufferUsers]

\* the lists handed to add_tweets: empty, of one tweet and of two
BatchLists ==
    {<<>>} \cup { <<r>> : r \in BatchTweets } \cup { <<r, q>> : r, q \in BatchTweets }

\* last_tweet_ids = {}
NoIds == <<>>

\* deque(items, maxlen=size): the last size items
Deque(items, size) ==
    IF Len(items) > size THEN SubSeq(items, Len(items) - size + 1, Len(items)) ELSE items

\* self.buffer.append(tweet) on a deque with maxlen=size: when the deque is
\* full the item at the left end is discarded
DequeAppend(items, item, size) == Deque(Append(items, item), size)

\* save_state: json.dump of buffer, last_tweet_ids and last_updated
save_state(items, ids) ==
    [exists |-> TRUE, parses |-> TRUE,
     state |-> [buffer |-> items, last_tweet_ids |-> ids, last_updated |-> "now"]]

\* a load_state that keeps the buffer it read when last_tweet_ids is missing
load_state_keeps_buffer(file, size) ==
    IF file.exists /\ file.parses /\ "buffer" \in DOMAIN file.state
    THEN [buffer |-> Deque(file.state.buffer, size),
          last_tweet_ids |-> IF "last_tweet_ids" \in DOMAIN file.state
                             THEN file.state.last_tweet_ids ELSE NoIds]
    ELSE [buffer |-> <<>>, last_tweet_ids |-> NoIds]

\* __init__ and load_state: without a file the values of __init__; with a
\* file its buffer and last_tweet_ids; and when json.load or one of the two
\* lookups raises, an empty deque and {}
load_state(file, size) ==
    IF /\ file.exists
       /\ file.parses
       /\ "buffer" \in DOMAIN file.state
       /\ "last_tweet_ids" \in DOMAIN file.state
    THEN [buffer |-> Deque(file.state.buffer, size),
          last_tweet_ids |-> file.state.last_tweet_ids]
    ELSE [buffer |-> <<>>, last_tweet_ids |-> NoIds]

\* tweet_id = tweet.get('id'); if tweet_id: (None and 0 are false)
HasId(record) == "id" \in DOMAIN record /\ record.id # 0

\* an id that is new when it is not smaller than the last one
NotOlder(id, ids, user) == user \notin DOMAIN ids \/ id >= ids[user]

\* line 46: username not in self.last_tweet_ids or tweet_id > last id
Newer(id, ids, user) == user \notin DOMAIN ids \/ id > ids[user]

\* self.last_tweet_ids[username] = tweet_id
SetId(ids, user, id) ==
    [u \in DOMAIN ids \cup {user} |-> IF u = user THEN id ELSE ids[u]]

\* add_tweet on the object self = [buffer, last_tweet_ids, state_file,
\* accepted]
AddTweet(self, record, size) ==
    IF HasId(record) /\ Newer(record.id, self.last_tweet_ids, record.username)
    THEN LET items == DequeAppend(self.buffer, record, size)
             ids == SetId(self.last_tweet_ids, record.username, record.id)
         IN [buffer |-> items, last_tweet_ids |-> ids,
             state_file |-> save_state(items, ids),
             accepted |-> Append(self.accepted, record)]
    ELSE self

RECURSIVE AddTweets(_, _, _)
\* add_tweets: for tweet in tweets: self.add_tweet(tweet)
AddTweets(self, records, size) ==
    IF records = <<>> THEN self
    ELSE AddTweets(AddTweet(self, Head(records), size), Tail(records), size)

\* the object of the state
Self ==
    [buffer |-> buffer, last_tweet_ids |-> last_tweet_ids,
     state_file |-> state_file, accepted |-> accepted]

\* the state files the program may find when it starts
StateFiles ==
    {[exists |-> FALSE, parses |-> FALSE, state |-> <<>>],
     [exists |-> TRUE, parses |-> FALSE, state |-> <<>>],
     [exists |-> TRUE, parses |-> TRUE, state |-> [buffer |-> <<[id |-> 1, username |-> "a"]>>]],
     [exists |-> TRUE, parses |-> TRUE, state |-> [last_tweet_ids |-> [a |-> 1]]],
     save_state(<<>>, NoIds),
     save_state(<<>>, [a |-> 1]),
     save_state(<<[id |-> 1, username |-> "a"]>>, [a |-> 1])}

InitBuffer ==
    /\ PrinterReady
    /\ NoLayout
    /\ NoPixel
    /\ NoReader
    /\ NoPrev
    /\ NoLoop
    /\ max_size \in 1..MaxSize
    /\ state_file \in StateFiles
    /\ buffer = load_state(state_file, max_size).buffer
    /\ last_tweet_ids = load_state(state_file, max_size).last_tweet_ids
    /\ accepted = <<>>
    /\ returned = <<>>
    /\ last_op = [name |-> "__init__", tweets |-> <<>>,
                  was |-> [buffer |-> <<>>, last_tweet_ids |-> NoIds,
                           state_file |-> state_file, accepted |-> <<>>]]

\* TweetBuffer(max_size) again, on the state file as it is now
TweetBuffer ==
    /\ buffer' = load_state(state_file, max_size).buffer
    /\ last_tweet_ids' = load_state(state_file, max_size).last_tweet_ids
    /\ last_op' = [name |-> "__init__", was |-> Self, tweets |-> <<>>]
    /\ UNCHANGED <<state_file, max_size, accepted, returned>>
    /\ UNCHANGED <<printerVars, layoutVars, pixelVars, readerVars, prev, loopVars>>

add_tweet ==
    /\ \E record \in BufferTweets :
         LET after == AddTweet(Self, record, max_size)
         IN /\ buffer' = after.buffer
            /\ last_tweet_ids' = after.last_tweet_ids
            /\ state_file' = after.state_file
            /\ accepted' = after.accepted
            /\ last_op' = [name |-> "add_tweet", was |-> Self, tweets |-> <<record>>]
    /\ UNCHANGED <<max_size, returned>>
    /\ UNCHANGED <<printerVars, layoutVars, pixelVars, readerVars, prev, loopVars>>

add_tweets ==
    /\ \E records \in BatchLists :
         LET after == AddTweets(Self, records, max_size)
         IN /\ buffer' = after.buffer
            /\ last_tweet_ids' = after.last_tweet_ids
            /\ state_file' = after.state_file
            /\ accepted' = after.accepted
            /\ last_op' = [name |-> "add_tweets", was |-> Self, tweets |-> records]
    /\ UNCHANGED <<max_size, returned>>
    /\ UNCHANGED <<printerVars, layoutVars, pixelVars, readerVars, prev, loopVars>>

\* get_next_tweet: popleft and save_state, or None when the buffer is empty
get_next_tweet ==
    /\ IF buffer # <<>>
       THEN /\ buffer' = Tail(buffer)
            /\ state_file' = save_state(Tail(buffer), last_tweet_ids)
            /\ returned' = Append(returned, Head(buffer))
       ELSE UNCHANGED <<buffer, state_file, returned>>
    /\ last_op' = [name |-> "get_next_tweet", was |-> Self, tweets |-> <<>>]
    /\ UNCHANGED <<last_tweet_ids, max_size, accepted>>
    /\ UNCHANGED <<printerVars, layoutVars, pixelVars, readerVars, prev, loopVars>>

NextBuffer ==
    \/ TweetBuffer
    \/ add_tweet
    \/ add_tweets
    \/ get_next_tweet

SpecBuffer == InitBuffer /\ [][NextBuffer]_vars

(***************************************************************************)
(* _wrap_text, _simple_text_to_image and _tweet_to_image alone, for every  *)
(* text and record of the model and every font.                            *)
(***************************************************************************)
InitLayout ==
    /\ PrinterReady
    /\ font \in Families
    /\ \/ text \in Texts /\ tweet = NoTweet
       \/ text = <<>> /\ tweet \in Records
    /\ wrapped = [returned |-> FALSE]
    /\ canvas = [returned |-> FALSE]
    /\ NoPixel
    /\ NoReader
    /\ NoPrev
    /\ NoBuffer
    /\ NoLoop

\* _wrap_text(text, font) with the title or the content font
WrapText ==
    /\ tweet = NoTweet
    /\ ~wrapped.returned
    /\ \E size \in {TITLE_SIZE, CONTENT_SIZE} :
         wrapped' = [returned |-> TRUE, fnt |-> get_font(font, size),
                     lines |-> wrap_text(text, get_font(font, size))]
    /\ UNCHANGED <<text, font, tweet, canvas>>
    /\ UNCHANGED <<printerVars, pixelVars, readerVars, prev, bufferVars, loopVars>>

\* _simple_text_to_image(text, align, size); print_startup_message calls it
\* with align=1, size=48
SimpleTextToImage ==
    /\ tweet = NoTweet
    /\ ~canvas.returned
    /\ \E align \in 0..2, size \in {48, TITLE_SIZE} :
         canvas' = simple_text_to_image(text, font, align, size)
                     @@ [returned |-> TRUE, by |-> "simple", fnt |-> get_font(font, size)]
    /\ UNCHANGED <<text, font, tweet, wrapped>>
    /\ UNCHANGED <<printerVars, pixelVars, readerVars, prev, bufferVars, loopVars>>

\* _tweet_to_image(text)
TweetToImage ==
    /\ tweet # NoTweet
    /\ ~canvas.returned
    /\ canvas' = tweet_to_image(tweet, font) @@ [returned |-> TRUE, by |-> "tweet"]
    /\ UNCHANGED <<text, font, tweet, wrapped>>
    /\ UNCHANGED <<printerVars, pixelVars, readerVars, prev, bufferVars, loopVars>>

NextLayout ==
    \/ WrapText
    \/ SimpleTextToImage
    \/ TweetToImage

SpecLayout == InitLayout /\ [][NextLayout]_vars

(***************************************************************************)
(* main() prints one tweet after the other: print_text renders the record  *)
(* with _tweet_to_image and hands the image to _print_image.  prev keeps,  *)
(* of every call that returned, the record, the image and of each write    *)
(* its length, its first 8 bytes and the sum of its bytes.                 *)
(***************************************************************************)
\* the default feed of 3 lines without a gap, no feed at all, and no feed
\* with a gap of 1 line
TweetConfigs == { NoKeys, [feed_lines |-> 0], [feed_lines |-> 0, tweet_gap_lines |-> 1] }

RECURSIVE SumOf(_, _)
\* the sum of the bytes of data, value by value over values
SumOf(data, values) ==
    IF values = {} THEN 0
    ELSE LET v == CHOOSE e \in values : TRUE
         IN v * Cardinality({i \in DOMAIN data : data[i] = v})
              + SumOf(data, values \ {v})

\* what prev keeps of one write
Digest(data) ==
    [len |-> Len(data), head |-> SubSeq(data, 1, Min(8, Len(data))),
     sum |-> SumOf(data, {data[i] : i \in DOMAIN data})]

\* an image that grows with every tweet printed before
RenderedImageGrows(layout, record) ==
    [height |-> layout.height + Len(prev), pat |-> Pattern(record)]

\* the image _tweet_to_image returns: the rows of the layout, the pixels of
\* the record's glyphs
RenderedImage(layout, record) ==
    [height |-> layout.height, pat |-> Pattern(record)]

InitTweet ==
    /\ pc = "Loop"
    /\ cfg \in TweetConfigs
    /\ handle = "COM3"
    /\ matched = TRUE
    /\ error = "none"
    /\ init_i = 4
    /\ call = "none"
    /\ ppc = "idle"
    /\ img = NoImage
    /\ start_y = 0
    /\ phase = "none"
    /\ remaining = 0
    /\ ret = "none"
    /\ raised = "none"
    /\ dev = <<>>
    /\ unsettled = 0
    /\ text = <<>>
    /\ font = NarrowFamily
    /\ wrapped = [returned |-> FALSE]
    /\ tweet = NoTweet
    /\ canvas = [returned |-> FALSE]
    /\ NoPixel
    /\ NoReader
    /\ NoPrev
    /\ NoBuffer
    /\ NoLoop

\* main lines 92-101: the tweet read is handed to print_text
LoopPrintTweet ==
    /\ pc = "Loop"
    /\ Len(prev) < MaxJobs
    /\ pc' = "Printing"
    /\ call' = "tweet"
    /\ ppc' = "Render"
    /\ \E r \in TweetRecords : tweet' = r
    /\ UNCHANGED <<cfg, handle, matched, error, init_i, dev, unsettled>>
    /\ UNCHANGED <<img, start_y, phase, remaining, ret, raised>>
    /\ UNCHANGED <<text, font, wrapped, canvas>>
    /\ UNCHANGED <<pixelVars, readerVars, prev, bufferVars, loopVars>>

\* print_text line 351: img = self._tweet_to_image(text)
RenderTweet ==
    /\ ppc = "Render"
    /\ tweet # NoTweet
    /\ canvas' = tweet_to_image(tweet, font) @@ [returned |-> TRUE, by |-> "tweet"]
    /\ img' = RenderedImage(canvas', tweet)
    /\ start_y' = 0
    /\ ppc' = "Block"
    /\ UNCHANGED <<cfg, dev, unsettled>>
    /\ UNCHANGED mainVars
    /\ UNCHANGED <<call, phase, remaining, ret, raised>>
    /\ UNCHANGED <<text, font, wrapped, tweet>>
    /\ UNCHANGED <<pixelVars, readerVars, prev, bufferVars, loopVars>>

\* main lines 101-106: print_text has returned
TweetReturns ==
    /\ pc = "Printing"
    /\ ppc = "Returned"
    /\ tweet # NoTweet
    /\ prev' = Append(prev, [tweet |-> tweet, img |-> img, ret |-> ret,
                             writes |-> [k \in 1..Len(dev) |-> Digest(dev[k])]])
    /\ pc' = "LoopSleep"
    /\ DropJob
    /\ tweet' = NoTweet
    /\ canvas' = [returned |-> FALSE]
    /\ UNCHANGED <<cfg, handle, matched, error, init_i, unsettled>>
    /\ UNCHANGED <<text, font, wrapped>>
    /\ UNCHANGED <<pixelVars, readerVars, bufferVars, loopVars>>

NextTweet ==
    \/ LoopPrintTweet
    \/ RenderTweet
    \/ WriteBlock
    \/ BlockSleep
    \/ FeedWrite
    \/ FeedSleep
    \/ WriteFails
    \/ Except
    \/ TweetReturns
    \/ LoopSleep

SpecTweet == InitTweet /\ [][NextTweet]_vars

(***************************************************************************)
(* Properties.                                                             *)
(***************************************************************************)
\* the smallest n with n * b >= a
CeilDiv(a, b) == CHOOSE n \in 0..a : n * b >= a /\ (n - 1) * b < a

\* a 2-byte little-endian field at position i of a write
LE16(w, i) == w[i] + 256 * w[i + 1]

\* the row_count field of a raster block
RowCount(w) == LE16(w, 7)

\* a write of line feeds only
IsFeed(w) == Len(w) >= 1 /\ \A i \in 1..Len(w) : w[i] = 10

\* bit b (0 = most significant) of a byte
BitOf(byte, b) == (byte \div (2 ^ (7 - b))) % 2 = 1

\* pixel (x, y) of the thresholded image is black
Black(x, y) == RasterPixel(raster_threshold(cfg), invert_raster(cfg), img, x, y) = 0

\* the print call has written its last raster block and gone on
RasterComplete ==
    /\ call # "none"
    /\ \/ ppc \in {"Feed", "FeedSleep"}
       \/ ppc = "Returned" /\ ret = "True"

\* the number of raster blocks of the call's image, and how many of them
\* have been written
NumBlocks == CeilDiv(img.height, 255)
BlocksWritten == Min(Len(dev), NumBlocks)

RECURSIVE SumRowCounts(_, _)
SumRowCounts(log, n) == IF n = 0 THEN 0 ELSE RowCount(log[n]) + SumRowCounts(log, n - 1)

\* C1: the row_count fields of the raster blocks written for an image of
\* height h >= 1 are all between 1 and 255, every block that is followed by
\* another one has row_count 255, and once the last block is written they
\* sum to h.
C1_RowCounts ==
    /\ \A i \in 1..Len(dev) :
         /\ RowCount(dev[i]) \in 1..255
         /\ i < Len(dev) => RowCount(dev[i]) = 255
    /\ RasterComplete => SumRowCounts(dev, Len(dev)) = img.height

\* a full block and a shorter last block were written
C1_Witness ==
    /\ RasterComplete
    /\ Len(dev) = 2
    /\ RowCount(dev[1]) = 255
    /\ RowCount(dev[2]) < 255

\* row y of the thresholded image, packed
PackedRow(y) ==
    [j \in 1..BYTES_PER_LINE |->
        PackByte(raster_threshold(cfg), invert_raster(cfg), img, 8 * (j - 1), y)]

\* the bytes of row r (from 0) of the payload of a raster block
PayloadRow(w, r) == SubSeq(w, 8 + r * BYTES_PER_LINE + 1, 8 + (r + 1) * BYTES_PER_LINE)

\* C2: an image of height h is written as exactly ceil(h / 255) raster
\* blocks, and block k (from 0) carries exactly the rows 255 * k up to
\* min(255 * (k + 1), h) - 1, whole and in increasing order.
C2_BlocksCarryRows ==
    RasterComplete =>
        /\ Len(dev) = CeilDiv(img.height, 255)
        /\ \A k \in 0..(Len(dev) - 1) :
             LET first == 255 * k
                 last == Min(255 * (k + 1), img.height) - 1
             IN /\ Len(dev[k + 1]) = 8 + (last - first + 1) * BYTES_PER_LINE
                /\ \A y \in first..last : PayloadRow(dev[k + 1], y - first) = PackedRow(y)

\* an image of more than 255 rows went out as two blocks, the second
\* starting with row 255
C2_Witness ==
    /\ RasterComplete
    /\ img.height > 255
    /\ Len(dev) = 2
    /\ PayloadRow(dev[2], 0) = PackedRow(255)
    /\ PayloadRow(dev[2], 0) # PayloadRow(dev[1], 0)

\* C3: in every packed row of a raster block, byte j has bit (7 - b) set
\* exactly if pixel x = 8 * j + b lies inside the width (x < MAX_WIDTH) and is
\* black; the bits at and beyond MAX_WIDTH are clear.
C3_PackedBits ==
    ppc = "BlockSleep" =>
        LET w == dev[Len(dev)] IN
        \A r \in 0..(RowCount(w) - 1) :
            \A j \in 0..(BYTES_PER_LINE - 1) :
                \A b \in 0..7 :
                    BitOf(w[8 + r * BYTES_PER_LINE + j + 1], b)
                        <=> (8 * j + b < MAX_WIDTH /\ Black(8 * j + b, start_y + r))

\* a block whose first row ends in a byte with black pixels and padding
C3_Witness ==
    /\ ppc = "BlockSleep"
    /\ MAX_WIDTH % 8 # 0
    /\ dev[Len(dev)][8 + BYTES_PER_LINE] # 0

RECURSIVE Locate(_, _, _)
\* the block, from block i on, and the row inside it that hold row y of the
\* concatenated payloads
Locate(log, i, y) ==
    IF y < RowCount(log[i]) THEN <<i, y>>
    ELSE Locate(log, i + 1, y - RowCount(log[i]))

\* pixel x of row y, unpacked from the payloads in write order: the bit is
\* set, the most significant bit is the leftmost pixel
UnpackedBlack(log, x, y) ==
    LET at == Locate(log, 1, y)
        bpl == LE16(log[at[1]], 5)
    IN BitOf(log[at[1]][8 + at[2] * bpl + (x \div 8) + 1], x % 8)

\* C4: unpacking the payloads of all raster blocks of an image, in write
\* order and without the bits beyond the width, gives the thresholded image
\* that was packed: as many rows, and the same pixels.
C4_RoundTrip ==
    RasterComplete =>
        /\ SumRowCounts(dev, Len(dev)) = img.height
        /\ \A y \in 0..(img.height - 1) :
             \A x \in 0..(MAX_WIDTH - 1) :
                 UnpackedBlack(dev, x, y) <=> Black(x, y)

\* an image of several blocks with a black pixel in the leftmost column of
\* its last row
C4_Witness ==
    /\ RasterComplete
    /\ Len(dev) = 2
    /\ \E y \in (img.height - 7)..(img.height - 1) : Black(0, y)

\* C5: every raster block written starts with 1D 76 30 00, then
\* bytes_per_line = ceil(MAX_WIDTH / 8) and its row_count, each as two bytes
\* low byte first, then row_count * bytes_per_line payload bytes, row by row;
\* bytes_per_line is the same in every block.
C5_WellFormed ==
    /\ \A i \in 1..Len(dev) :
         LET w == dev[i] IN
         /\ SubSeq(w, 1, 4) = <<29, 118, 48, 0>>
         /\ \A n \in 1..Len(w) : w[n] \in 0..255
         /\ LE16(w, 5) = CeilDiv(MAX_WIDTH, 8)
         /\ LE16(w, 7) = Min(255, img.height - 255 * (i - 1))
         /\ Len(w) = 8 + LE16(w, 7) * LE16(w, 5)
         /\ \A k \in 1..Len(dev) : LE16(dev[k], 5) = LE16(w, 5)
    /\ ppc = "BlockSleep" =>
         LET w == dev[Len(dev)] IN
         \A r \in 0..(RowCount(w) - 1) :
             \A j \in 0..(LE16(w, 5) - 1) :
                 w[8 + r * LE16(w, 5) + j + 1]
                     = PackByte(raster_threshold(cfg), invert_raster(cfg), img,
                                8 * j, start_y + r)

\* a second block, shorter than the first, has been written
C5_Witness ==
    /\ ppc = "BlockSleep"
    /\ Len(dev) = 2
    /\ RowCount(dev[2]) < RowCount(dev[1])

\* C6: during a print job the device receives the raster blocks in the order
\* they are produced, top to bottom, each as one write that holds that block
\* and nothing else, and every paper-feed write comes after the last raster
\* block.
C6_OrderedWrites ==
    (call # "none" /\ img # NoImage) =>
        /\ \A i \in 1..BlocksWritten : dev[i] = RasterBlock(cfg, img, 255 * (i - 1))
        /\ \A i \in (BlocksWritten + 1)..Len(dev) : IsFeed(dev[i])

\* two raster blocks, then a feed write
C6_Witness ==
    /\ call = "tweet"
    /\ NumBlocks = 2
    /\ Len(dev) > 2
    /\ IsFeed(dev[Len(dev)])

\* C7: every WriteFile call on the handle (by _write in the initialization,
\* by _write_no_delay for a raster block or a feed chunk, failed calls
\* included) is followed by a time.sleep before the next WriteFile call is
\* issued: never are two calls issued without a delay between them.
C7_DelayAfterEveryWrite == unsettled <= 1

\* after a raster block and a feed chunk, each followed by its delay, the
\* next feed chunk is about to be written
C7_Witness ==
    /\ ppc = "Feed"
    /\ Len(dev) >= 2
    /\ IsFeed(dev[Len(dev)])
    /\ unsettled = 0

\* the lengths of the writes that feed n lines: as many writes of 255 as fit,
\* then the rest
ExpectedChunks(n) ==
    IF n <= 0 THEN <<>>
    ELSE [i \in 1..CeilDiv(n, 255) |-> IF 255 * i <= n THEN 255 ELSE n - 255 * (i - 1)]

\* the lengths of the writes after the raster blocks
FeedLengths == [i \in 1..(Len(dev) - BlocksWritten) |-> Len(dev[BlocksWritten + i])]

\* the print call returned True
JobDone == call # "none" /\ ppc = "Returned" /\ ret = "True"

\* C8 as stated: after all raster blocks exactly one paper-feed command is
\* emitted, carrying the configured feed_lines clamped to 0..255.
C8_OneClampedFeed ==
    JobDone =>
        /\ Len(FeedLengths) = 1
        /\ FeedLengths[1] = Clamp(0, 255, FeedLines(cfg))

\* C8, amended: the feed is not clamped.  After all raster blocks
\* _print_image writes feed_lines line feeds in ceil(feed_lines / 255) writes
\* of at most 255 (none when feed_lines <= 0), and print_text then writes its
\* tweet gap the same way; a job without tweet gap and with feed_lines in
\* 1..255 emits exactly one feed write of feed_lines line feeds.
C8_FeedChunks ==
    JobDone =>
        /\ \A i \in (BlocksWritten + 1)..Len(dev) : IsFeed(dev[i])
        /\ FeedLengths = ExpectedChunks(FeedLines(cfg))
                            \o (IF call = "tweet" THEN ExpectedChunks(GapLines(cfg)) ELSE <<>>)
        /\ (FeedLines(cfg) \in 1..255 /\ (call = "startup" \/ GapLines(cfg) <= 0))
              => FeedLengths = <<FeedLines(cfg)>>

\* a feed of more than 255 lines went out in two writes before the tweet gap
C8_Witness ==
    /\ JobDone
    /\ call = "tweet"
    /\ FeedLines(cfg) > 255
    /\ GapLines(cfg) > 0
    /\ Len(FeedLengths) = 3

\* the stage of a position of the print call
Stage(p) ==
    CASE p = "Render" -> 1
      [] p \in {"Block", "BlockSleep"} -> 2
      [] p \in {"Feed", "FeedSleep"} -> 3
      [] p = "Raised" -> 4
      [] p = "Returned" -> 5
      [] OTHER -> 0

\* C9: a print job only moves forward.  When a step fails (rendering or a
\* device write) the call returns False without a further write and without
\* retrying a step, and it returns True only if every raster block write and
\* every feed write of the job was made.
C9_ForwardOnly ==
    /\ [](ppc = "Returned" =>
            /\ ret \in {"True", "False"}
            /\ ret = "False" <=> raised # "none"
            /\ ret = "True" =>
                 /\ BlocksWritten = NumBlocks
                 /\ Len(dev) = NumBlocks + Len(ExpectedChunks(FeedLines(cfg)))
                      + (IF call = "tweet" THEN Len(ExpectedChunks(GapLines(cfg))) ELSE 0))
    /\ [][(call # "none" /\ call' = call) =>
            /\ Stage(ppc') >= Stage(ppc)
            /\ start_y' >= start_y
            /\ (ppc' = "Block" /\ ppc # "Render") => start_y' > start_y
            /\ (ppc' = "Feed" /\ ppc = "FeedSleep" /\ phase' = phase) => remaining' < remaining
            /\ raised # "none" =>
                 /\ dev' = dev
                 /\ unsettled' = unsettled
                 /\ ppc' = "Returned"
                 /\ ret' = "False"]_vars

\* a feed write failed after the raster block had been written, and the
\* call returned False
C9_Witness ==
    /\ ppc = "Returned"
    /\ ret = "False"
    /\ raised = "Feed"
    /\ Len(dev) >= 1
    /\ BlocksWritten = NumBlocks

\* C10: when no enumerated port carries the printer's vendor and product id,
\* main() ends with the "not found" exception before the port is opened: no
\* print call starts, no image is rendered, no byte is written.
C10_NotFound ==
    (pc # "Connect" /\ ~matched) =>
        /\ pc = "Crashed"
        /\ error = "not_found"
        /\ handle = "none"
        /\ call = "none"
        /\ img = NoImage
        /\ dev = <<>>
        /\ unsettled = 0

\* no port matched and main() ended
C10_Witness ==
    /\ pc = "Crashed"
    /\ error = "not_found"
    /\ ~matched

\* main() is inside __init__'s call of _initialize_printer, or just past it
Initializing == pc \in {"Init", "InitSleep", "ResetTweets"}

\* the second byte of the four initialization commands: ESC @, ESC 7, ESC 3,
\* ESC s
InitOpcodes == <<64, 55, 51, 115>>

\* C11: on connect the device receives the four initialization commands
\* reset (ESC @), set density (ESC 7 n), set line spacing (ESC 3 64) and set
\* speed (ESC s n), one write each and in this order; all four are written
\* before the first print call starts, a print call writes only raster blocks
\* and line feeds, and the initialization is never entered again.
C11_InitOnce ==
    /\ [](/\ Initializing =>
               /\ call = "none"
               /\ Len(dev) = (IF pc = "Init" THEN init_i - 1
                              ELSE IF pc = "InitSleep" THEN init_i ELSE 4)
               /\ \A i \in 1..Len(dev) :
                    /\ dev[i][1] = 27
                    /\ dev[i][2] = InitOpcodes[i]
                    /\ Len(dev[i]) = (IF i = 1 THEN 2 ELSE 3)
               /\ Len(dev) >= 3 => dev[3][3] = 64
          /\ call # "none" =>
               /\ ~Initializing
               /\ pc # "Connect"
               /\ init_i = 4
               /\ \A i \in 1..Len(dev) : dev[i][1] \in {29, 10})
    /\ [][/\ (pc \notin {"Connect", "Init", "InitSleep"})
               => (pc' \notin {"Connect", "Init", "InitSleep"} /\ init_i' = init_i)
          /\ init_i' >= init_i
          /\ (call' # "none" /\ call = "none") => (pc = "ResetTweets" \/ init_i = 4)]_vars

\* a print_text call, made after the startup message, has written a raster
\* block
C11_Witness ==
    /\ call = "tweet"
    /\ init_i = 4
    /\ Len(dev) >= 1
    /\ dev[1][1] = 29

\* the value a configured parameter should be sent as: unchanged inside
\* lo..hi, the nearest bound outside
Nearest(lo, hi, v) == IF v < lo THEN lo ELSE IF v > hi THEN hi ELSE v

\* C12: for every integer print_density and print_speed of the configuration
\* the parameter byte of the set-density command lies in 0..7 and that of the
\* set-speed command in 1..5; a configured value inside the range is sent
\* unchanged and one outside it as the nearest bound.
C12_ClampedParams ==
    Initializing =>
        /\ Len(dev) >= 2 =>
             /\ dev[2][3] \in 0..7
             /\ "print_density" \in DOMAIN cfg
                   => dev[2][3] = Nearest(0, 7, cfg["print_density"])
        /\ Len(dev) >= 4 =>
             /\ dev[4][3] \in 1..5
             /\ "print_speed" \in DOMAIN cfg
                   => dev[4][3] = Nearest(1, 5, cfg["print_speed"])

\* a negative density and a very large speed were configured and all four
\* commands were written
C12_Witness ==
    /\ pc = "ResetTweets"
    /\ "print_density" \in DOMAIN cfg
    /\ "print_speed" \in DOMAIN cfg
    /\ cfg["print_density"] < 0
    /\ cfg["print_speed"] = BigParam
    /\ dev[2][3] = 0
    /\ dev[4][3] = 5

\* the grey value the threshold is applied to: inverted first if invert_raster
Toned == IF invert_raster(cfg) THEN 255 - pixel ELSE pixel

\* C19: for every grey value p in 0..255 and every raster_threshold the pixel
\* is packed as black (value 0, the value whose bit is set) exactly if
\* p' < raster_threshold, where p' = 255 - p with invert_raster and p' = p
\* without; every other pixel is white (255).
C19_HardThreshold ==
    (ppc = "Block" /\ img = NoImage) =>
        /\ packed \in {0, 255}
        /\ packed = 0 <=> Toned < raster_threshold(cfg)

\* a light pixel that inversion makes dark, and a pixel equal to the
\* threshold, which stays white
C19_Witness ==
    /\ ppc = "Block"
    /\ img = NoImage
    /\ \/ invert_raster(cfg) /\ pixel = 200 /\ raster_threshold(cfg) = 128 /\ packed = 0
       \/ ~invert_raster(cfg) /\ pixel = raster_threshold(cfg) /\ packed = 255

\* the tweets of a file that are not printed, by the number of their row
UnprintedRows(rows) ==
    LET r == ReadTweets(rows)
    IN { r.tweets[k].row : k \in Unprinted(r.rows, r.tweets) }

\* C20: a call of get_random_unprinted_tweet returns (it does not raise);
\* it returns None exactly if the file holds no unprinted tweet, and leaves
\* the file as it was; otherwise it returns a tweet that was unprinted, the
\* file then has that tweet marked as printed, and it is not a tweet that an
\* earlier call returned.
C20_ReturnsUnprintedOnce ==
    /\ got.kind \in {"idle", "None", "tweet"}
    /\ got.kind = "None" => (UnprintedRows(got.before) = {} /\ csv = got.before)
    /\ got.kind = "tweet" =>
         /\ got.row \in UnprintedRows(got.before)
         /\ ParsePrinted(csv[got.row].printed)
         /\ got.row \notin got.seen

\* C13: every line _wrap_text returns, other than the pieces cut from an
\* over-wide word, measures at most max_width; and no word of the text that
\* measures more than max_width is returned whole as a line.
C13_LinesFit ==
    wrapped.returned =>
        \A n \in 1..Len(wrapped.lines) :
            /\ ~wrapped.lines[n].forced
                  => TextWidth(wrapped.fnt, wrapped.lines[n].line) <= max_width
            /\ ~(/\ TextWidth(wrapped.fnt, wrapped.lines[n].line) > max_width
                 /\ \E k \in 1..Len(Split(text)) : wrapped.lines[n].line = Split(text)[k])

\* the text is one word, without whitespace, and wider than max_width
OneWideWord ==
    /\ wrapped.returned
    /\ Split(text) = <<text>>
    /\ TextWidth(wrapped.fnt, text) > max_width

C15_OneEmptyLine ==
    /\ (wrapped.returned /\ IsBlank(text)) => LinesOf(wrapped.lines) = << <<>> >>
    /\ (canvas.returned /\ canvas.by = "tweet" /\ IsBlank(tweet.title))
          => canvas.title_lines = 1

\* the number of times c occurs in s
Count(s, c) == Cardinality({ k \in DOMAIN s : s[k] = c })

\* C15, amended: _wrap_text returns no line at all for the empty string and
\* for whitespace only.  _simple_text_to_image itself turns every empty or
\* whitespace-only paragraph into one empty line of LINE_HEIGHT that it does
\* not draw; _tweet_to_image has no line for an empty or whitespace-only
\* title or content, only the spacing of the section (and none for an empty
\* content).
C15_NoLine ==
    /\ (wrapped.returned /\ IsBlank(text)) => wrapped.lines = <<>>
    /\ (canvas.returned /\ canvas.by = "simple" /\ IsBlank(text)) =>
         /\ Len(canvas.lines) = Count(text, "\n") + 1
         /\ \A n \in 1..Len(canvas.lines) :
              /\ canvas.lines[n].line = <<>>
              /\ ~canvas.lines[n].drawn
              /\ canvas.lines[n].step = LINE_HEIGHT
         /\ canvas.height = LINE_HEIGHT * (Count(text, "\n") + 1)
    /\ (canvas.returned /\ canvas.by = "tweet") =>
         /\ IsBlank(tweet.title) => canvas.title_lines = 0
         /\ IsBlank(tweet.content) => canvas.content_lines = 0
         /\ (IsBlank(tweet.title) /\ IsBlank(tweet.content)) =>
              /\ Len(canvas.lines) = 2
              /\ canvas.cursor = canvas.lines[2].y + canvas.lines[2].step
                    + 2 * TITLE_SPACING
                    + (IF tweet.content = <<>> THEN 0 ELSE 2 * CONTENT_SPACING)

\* a text of whitespace only was wrapped and rendered
C15_Witness ==
    /\ wrapped.returned
    /\ canvas.returned
    /\ text # <<>>
    /\ IsBlank(text)

\* C16: every line a renderer draws lies with its full height inside the
\* image it was drawn into, and the image returned has the height of the
\* final cursor value and no row that was not part of that image.
C16_DrawnInside ==
    canvas.returned =>
        /\ \A n \in 1..Len(canvas.lines) :
             canvas.lines[n].drawn => canvas.lines[n].y + canvas.lines[n].h <= canvas.alloc
        /\ canvas.height = canvas.cursor
        /\ canvas.height <= canvas.alloc

\* a write is a raster block: it starts with GS v 0 m
IsBlockWrite(w) == Len(w) >= 8 /\ SubSeq(w, 1, 4) = <<29, 118, 48, 0>>

\* the tweet rendered has a title that fits on one line and no content
OneLineTitle ==
    /\ tweet # NoTweet
    /\ canvas.returned
    /\ canvas.by = "tweet"
    /\ Split(tweet.title) # <<>>
    /\ TextWidth(get_font(font, TITLE_SIZE), Join(Split(tweet.title))) <= max_width
    /\ tweet.content = <<>>

\* print_text has rendered the tweet
Rendered == OneLineTitle /\ call = "tweet" /\ img # NoImage

\* C18 as stated: a record whose title fits on one line and whose body is
\* empty gives exactly one title line and an image of at most 255 rows, and
\* its print job is exactly one raster block followed by one feed write.
C18_OneBlock ==
    Rendered =>
        /\ canvas.title_lines = 1
        /\ img.height = canvas.height
        /\ img.height <= BLOCK_ROWS
        /\ JobDone => /\ Len(dev) = 2
                      /\ IsBlockWrite(dev[1])
                      /\ IsFeed(dev[2])

\* C18, amended: such a record gives exactly one title line and no content
\* line, and an image of 20 + max(username height, date height) + 50 +
\* (title height + 15) + 2 * TITLE_SPACING rows.  These are more than 255
\* rows, so the job writes ceil(height / 255) >= 2 raster blocks, which
\* carry all rows, and then the feed writes of _print_image and print_text:
\* one write of 3 line feeds under the default configuration.
C18_TwoBlocks ==
    Rendered =>
        /\ canvas.title_lines = 1
        /\ canvas.content_lines = 0
        /\ img.height = canvas.height
        /\ img.height = 20 + Max(get_font(font, USERNAME_SIZE).h,
                                 IF tweet.date = <<>> THEN 0
                                 ELSE get_font(font, HASHTAG_SIZE).h)
                           + 50 + (get_font(font, TITLE_SIZE).h + 15) + 2 * TITLE_SPACING
        /\ img.height > BLOCK_ROWS
        /\ JobDone =>
             LET blocks == CeilDiv(img.height, BLOCK_ROWS)
             IN /\ blocks >= 2
                /\ Len(dev) >= blocks
                /\ \A k \in 1..Len(dev) : IsBlockWrite(dev[k]) <=> k <= blocks
                /\ SumRowCounts(dev, blocks) = img.height
                /\ \A k \in (blocks + 1)..Len(dev) : IsFeed(dev[k])
                /\ [k \in 1..(Len(dev) - blocks) |-> Len(dev[blocks + k])]
                      = ExpectedChunks(FeedLines(cfg)) \o ExpectedChunks(GapLines(cfg))
                /\ cfg = NoKeys => Len(dev) = blocks + 1 /\ Len(dev[blocks + 1]) = 3

\* the job of such a record returned under the default configuration: two
\* raster blocks and one feed write
C18_Witness ==
    /\ Rendered
    /\ JobDone
    /\ cfg = NoKeys
    /\ Len(dev) = 3
    /\ IsBlockWrite(dev[2])
    /\ IsFeed(dev[3])

\* the calls that returned before and printed the record of this call
SameRecordBefore == { j \in 1..Len(prev) : tweet # NoTweet /\ prev[j].tweet = tweet }

TweetRows(tweets) == { tweets[k].row : k \in 1..Len(tweets) }

\* row n of the file has a next row with the same stripped username
PairsWithNext(rows, n) ==
    /\ n + 1 <= Len(rows)
    /\ Strip(rows[n].username) = Strip(rows[n + 1].username)

\* C21: every call of _read_tweets completes without an error; a returned
\* row that has a next row of the same stripped username carries that row's
\* content as english_content and the next row is not returned; any other
\* returned row has content and an empty english_content; and every row of
\* the file is returned, or follows a returned row it is paired with, or has
\* no content.
C21_ReadsEveryRow ==
    read.called =>
        LET rows == read.before
            paired == { n \in TweetRows(read.tweets) : PairsWithNext(rows, n) }
        IN /\ read.ok
           /\ \A k \in 1..Len(read.tweets) :
                 LET n == read.tweets[k].row
                 IN IF n \in paired
                    THEN /\ read.tweets[k].english_content = rows[n + 1].content
                         /\ n + 1 \notin TweetRows(read.tweets)
                    ELSE /\ read.tweets[k].english_content = <<>>
                         /\ Strip(rows[n].content) # <<>>
           /\ \A n \in 1..Len(rows) :
                 \/ n \in TweetRows(read.tweets)
                 \/ n - 1 \in paired
                 \/ Strip(rows[n].content) = <<>>

\* C22: the reset of main() completes and leaves every tweet of the file
\* unprinted; and a call of get_random_unprinted_tweet that comes right
\* after a reset returns None only if the file holds no tweet.
C22_ResetMakesAllUnprinted ==
    /\ (read.called /\ read.by = "main") =>
          /\ read.ok
          /\ got.kind = "reset"
          /\ UnprintedRows(csv) = TweetRows(read.tweets)
    /\ (read.called /\ read.by = "get_random_unprinted_tweet" /\ got.seen = {}) =>
          /\ got.kind # "raised"
          /\ got.kind = "None" => read.tweets = <<>>

\* C26: between two resets every call of get_random_unprinted_tweet that
\* returns a tweet returns one that no call since the reset has returned,
\* and leaves one unprinted tweet less in the file than there was.
C26_UnprintedShrinks ==
    [][(got' # got /\ got'.kind = "tweet") =>
         /\ got'.row \notin got'.seen
         /\ UnprintedRows(csv') = UnprintedRows(csv) \ {got'.row}]_vars


\* C23: a tweet is fetched and handed to print_text only in an iteration
\* whose current_time is at least the interval after last_print_time; after
\* a print attempt, whatever print_text did, last_print_time is the
\* current_time of the iteration of that attempt; and the current_time of
\* two successive print attempts differ by at least the interval.
C23_OnePrintPerInterval ==
    /\ lpc \in {"Fetch", "Print"} => current_time - last_print_time >= interval
    /\ Len(attempts) = 2 => attempts[2].at - attempts[1].at >= interval
    /\ attempts # <<>> => last_print_time = attempts[Len(attempts)].at

\* two print attempts exactly one interval apart, the first of which failed
C23_Witness ==
    /\ interval >= 2
    /\ Len(attempts) = 2
    /\ attempts[1].outcome # "True"
    /\ attempts[2].at - attempts[1].at = interval
    /\ last_print_time = attempts[2].at


\* last_tweet_ids in two places agree
SameIds(ids, other) ==
    /\ DOMAIN ids = DOMAIN other
    /\ \A user \in DOMAIN ids : ids[user] = other[user]

\* the largest of a non-empty set of numbers
Largest(ids) == CHOOSE i \in ids : \A j \in ids : j <= i

\* the ids of the tweets of a user add_tweet accepted
AcceptedIds(user) ==
    { accepted[k].id : k \in { j \in 1..Len(accepted) : accepted[j].username = user } }

\* C24: an add_tweet call with a tweet that has no id, or whose id is not
\* greater than the id recorded for its username, leaves the buffer,
\* last_tweet_ids and the state file as they were before the call; no
\* operation removes a username from last_tweet_ids or lowers its id; the
\* id recorded for a username is the largest id accepted for it; and no id
\* is accepted twice for a username.
C24_OnlyNewTweets ==
    /\ (last_op.name = "add_tweet" /\
        LET record == last_op.tweets[1]
        IN \/ "id" \notin DOMAIN record
           \/ /\ record.username \in DOMAIN last_op.was.last_tweet_ids
              /\ record.id <= last_op.was.last_tweet_ids[record.username])
       => /\ buffer = last_op.was.buffer
          /\ SameIds(last_tweet_ids, last_op.was.last_tweet_ids)
          /\ state_file = last_op.was.state_file
    /\ \A user \in DOMAIN last_op.was.last_tweet_ids :
          /\ user \in DOMAIN last_tweet_ids
          /\ last_tweet_ids[user] >= last_op.was.last_tweet_ids[user]
    /\ \A user \in BufferUsers :
          AcceptedIds(user) # {} =>
              /\ user \in DOMAIN last_tweet_ids
              /\ last_tweet_ids[user] = Largest(AcceptedIds(user))
    /\ \A j, k \in 1..Len(accepted) :
          (j < k /\ accepted[j].username = accepted[k].username)
              => accepted[j].id < accepted[k].id

\* add_tweet was called with an id equal to the recorded one, after two
\* tweets of that user were accepted
C24_Witness ==
    /\ last_op.name = "add_tweet"
    /\ "id" \in DOMAIN last_op.tweets[1]
    /\ last_op.tweets[1].username \in DOMAIN last_op.was.last_tweet_ids
    /\ last_op.tweets[1].id = last_op.was.last_tweet_ids[last_op.tweets[1].username]
    /\ Cardinality(AcceptedIds(last_op.tweets[1].username)) >= 2
    /\ buffer = last_op.was.buffer

\* the last n items of a sequence
Newest(items, n) ==
    IF n >= Len(items) THEN items ELSE SubSeq(items, Len(items) - n + 1, Len(items))

\* C28: the buffer never holds more than max_size tweets, and the tweets
\* add_tweet accepted are, in the order in which they were accepted, the
\* newest of the tweets get_next_tweet returned so far followed by the
\* tweets the buffer holds: none is dropped and none overtakes another.
C28_LossFreeFifo ==
    /\ Len(buffer) <= max_size
    /\ Len(accepted) <= Len(returned \o buffer)
    /\ Newest(returned \o buffer, Len(accepted)) = accepted

\* the object and the state file hold the same buffer and last_tweet_ids
FileIsState ==
    /\ state_file.exists
    /\ state_file.parses
    /\ DOMAIN state_file.state = {"buffer", "last_tweet_ids", "last_updated"}
    /\ state_file.state.buffer = buffer
    /\ SameIds(state_file.state.last_tweet_ids, last_tweet_ids)

\* json.load or one of the two lookups of load_state raises on the file
Unreadable(file) ==
    \/ ~file.parses
    \/ "buffer" \notin DOMAIN file.state
    \/ "last_tweet_ids" \notin DOMAIN file.state

LineWords == Concat([n \in 1..Len(wrapped.lines) |-> Split(wrapped.lines[n].line)])

\* the places in the text without whitespace at which the words of a list end
WordEnds(words) == { Len(Concat(SubSeq(words, 1, k))) : k \in 1..Len(words) }

\* the word of the list that holds place e of the text without whitespace
WordAt(words, e) ==
    words[CHOOSE k \in 1..Len(words) :
            /\ e <= Len(Concat(SubSeq(words, 1, k)))
            /\ e > Len(Concat(SubSeq(words, 1, k - 1)))]

\* C25: the words of the lines _wrap_text returns, in order, spell the words
\* of the text in order; every word of the text ends where a word of the
\* lines ends, so a word of the text is one word of one line or several
\* successive words of the lines; and a word of the lines ends inside a word
\* of the text only if that word is wider than max_width and was therefore
\* cut into pieces.
C25_WordsKept ==
    wrapped.returned =>
        /\ Concat(LineWords) = Concat(Split(text))
        /\ WordEnds(Split(text)) \subseteq WordEnds(LineWords)
        /\ \A e \in WordEnds(LineWords) \ WordEnds(Split(text)) :
              TextWidth(wrapped.fnt, WordAt(Split(text), e)) > max_width

\* a text of two words of which the first was cut into pieces, the last
\* piece sharing its line with the second word
C25_Witness ==
    /\ wrapped.returned
    /\ Len(Split(text)) = 2
    /\ Len(LineWords) > Len(Split(text))
    /\ \E n \in 1..Len(wrapped.lines) :
         /\ n > 1
         /\ wrapped.lines[n - 1].forced
         /\ Len(Split(wrapped.lines[n].line)) >= 2


\* C27: when main() has returned after the connection was opened, whether
\* through ESC or through a failed startup message, the handle is closed.
C27_ClosedOnReturn ==
    (pc \in {"Returned", "Closed"} /\ matched) => handle = "closed"

====
